---- MODULE Spec2Model ----
(***************************************************************************)
(* Model of src/common/types.py: the generic Result container and the      *)
(* ensure_type guard.  Python objects are records [type, lit]: the class   *)
(* of the object (written as the repr of the class) and the literal that   *)
(* denotes the object.  A call's outcome is a record that says whether    *)
(* the call returned or raised, and with what.                             *)
(*                                                                         *)
(* The module also models the programs of the test suite that the          *)
(* chapters on concurrency, async, context managers, metaclasses,          *)
(* descriptors, typing, iteration and observers are checked with: each     *)
(* has its own variables and its own specification, and pins the           *)
(* variables of the others.                                                *)
(***************************************************************************)
EXTENDS Integers, Sequences, FiniteSets, TLC

VARIABLES
    heap,       \* Result objects by address: UNALLOCATED or [value, error]
    given,      \* per address, the arguments its constructor received
    last,       \* the most recent call and its outcome
    log,        \* the calls made on one Result so far, in order
    thr,        \* per thread, the call it is executing and how far it got
    counter,    \* lock-protected counter: counter[0]
    lock,       \* lock-protected counter: the thread holding lock, or 0
    inc,        \* lock-protected counter: per incrementing thread, its position
    cmain,      \* lock-protected counter: the position of the test function
    sem,        \* semaphore test: the permits left in sem
    slock,      \* semaphore test: the thread holding lock, or 0
    current,    \* semaphore test: current[0]
    max_concurrent, \* semaphore test: max_concurrent[0]
    wrk,        \* semaphore test: per worker thread, its position
    smain,      \* semaphore test: the position of the test function
    q,          \* producer-consumer test: the items in q, oldest first
    results,    \* producer-consumer test: results
    qlock,      \* producer-consumer test: the thread holding lock, or 0
    prod,       \* producer-consumer test: the position of producer
    cons,       \* producer-consumer test: the position of consumer and its item
    qmain,      \* producer-consumer test: the position of the test function
    barrier,    \* barrier test: the threads inside barrier.wait() and whether it is filling or draining
    arrivals,   \* barrier test: arrivals
    block,      \* barrier test: the thread holding lock, or 0
    bwrk,       \* barrier test: per worker thread, its position
    bmain,      \* barrier test: the position of the test function
    coro,       \* gather tests: per coroutine, its position and the value it returned
    completed,  \* gather tests: the values in the order the coroutines finished (results)
    gathered,   \* gather tests: what gather returned, once it has
    gmain,      \* gather tests: the position of main()
    events,     \* context-manager tests: events
    cm,         \* context-manager tests: the position in the with statement, and the managers used so far
    instances,  \* singleton test: SingletonMeta._instances, the instance stored per class
    created,    \* singleton test: how many objects the underlying constructor has made
    sthr,       \* singleton test: per caller of Singleton(), its position, its new object and what it got
    items,      \* generic Stack test: Stack._items
    sops,       \* generic Stack test: the calls made on the stack so far, with what they returned
    it,         \* iterator tests: the iterator: its class, its argument and self.current
    yielded,    \* iterator tests: the values the next calls have returned, in order
    stops,      \* iterator tests: how many next calls have signalled exhaustion
    dobj,       \* descriptor tests: the object with the validated attribute: its class and its __dict__
    dlog,       \* descriptor tests: the assignments made so far and whether each raised
    handlers,   \* EventBus test: EventBus._handlers, the handlers per event in subscription order
    notifications, \* EventBus test: notifications
    bops        \* EventBus test: the calls made on the bus so far

result_vars == <<heap, given, last>>
hist_vars   == <<log>>
thread_vars == <<thr>>
types_vars  == <<result_vars, hist_vars, thread_vars>>
counter_vars == <<counter, lock, inc, cmain>>
sem_vars    == <<sem, slock, current, max_concurrent, wrk, smain>>
queue_vars == <<q, results, qlock, prod, cons, qmain>>
barrier_vars == <<barrier, arrivals, block, bwrk, bmain>>
gather_vars == <<coro, completed, gathered, gmain>>
ctx_vars == <<events, cm>>
single_vars == <<instances, created, sthr>>
stack_vars == <<items, sops>>
iter_vars == <<it, yielded, stops>>
desc_vars == <<dobj, dlog>>
bus_vars == <<handlers, notifications, bops>>

vars ==
    <<types_vars, counter_vars, sem_vars, queue_vars, barrier_vars,
      gather_vars, ctx_vars, single_vars, stack_vars, iter_vars,
      desc_vars, bus_vars>>

\* what each part of the model leaves alone
outside_types ==
    <<counter_vars, sem_vars, queue_vars, barrier_vars, gather_vars,
      ctx_vars, single_vars, stack_vars, iter_vars, desc_vars, bus_vars>>
outside_counter ==
    <<types_vars, sem_vars, queue_vars, barrier_vars, gather_vars,
      ctx_vars, single_vars, stack_vars, iter_vars, desc_vars, bus_vars>>
outside_sem ==
    <<types_vars, counter_vars, queue_vars, barrier_vars, gather_vars,
      ctx_vars, single_vars, stack_vars, iter_vars, desc_vars, bus_vars>>
outside_queue ==
    <<types_vars, counter_vars, sem_vars, barrier_vars, gather_vars,
      ctx_vars, single_vars, stack_vars, iter_vars, desc_vars, bus_vars>>
outside_barrier ==
    <<types_vars, counter_vars, sem_vars, queue_vars, gather_vars,
      ctx_vars, single_vars, stack_vars, iter_vars, desc_vars, bus_vars>>
outside_gather ==
    <<types_vars, counter_vars, sem_vars, queue_vars, barrier_vars,
      ctx_vars, single_vars, stack_vars, iter_vars, desc_vars, bus_vars>>
outside_ctx ==
    <<types_vars, counter_vars, sem_vars, queue_vars, barrier_vars,
      gather_vars, single_vars, stack_vars, iter_vars, desc_vars,
      bus_vars>>
outside_single ==
    <<types_vars, counter_vars, sem_vars, queue_vars, barrier_vars,
      gather_vars, ctx_vars, stack_vars, iter_vars, desc_vars, bus_vars>>
outside_stack ==
    <<types_vars, counter_vars, sem_vars, queue_vars, barrier_vars,
      gather_vars, ctx_vars, single_vars, iter_vars, desc_vars, bus_vars>>
outside_iter ==
    <<types_vars, counter_vars, sem_vars, queue_vars, barrier_vars,
      gather_vars, ctx_vars, single_vars, stack_vars, desc_vars,
      bus_vars>>
outside_desc ==
    <<types_vars, counter_vars, sem_vars, queue_vars, barrier_vars,
      gather_vars, ctx_vars, single_vars, stack_vars, iter_vars,
      bus_vars>>
outside_bus ==
    <<types_vars, counter_vars, sem_vars, queue_vars, barrier_vars,
      gather_vars, ctx_vars, single_vars, stack_vars, iter_vars,
      desc_vars>>

\* the tests of the lock-protected counter are not running
CounterUnused ==
    /\ counter = 0
    /\ lock = 0
    /\ inc = <<>>
    /\ cmain = [pc |-> "", n |-> 0]

\* the semaphore test is not running
SemUnused ==
    /\ sem = 0
    /\ slock = 0
    /\ current = 0
    /\ max_concurrent = 0
    /\ wrk = <<>>
    /\ smain = [pc |-> "", n |-> 0]

\* the producer-consumer test is not running
QueueUnused ==
    /\ q = <<>>
    /\ results = <<>>
    /\ qlock = 0
    /\ prod = [pc |-> "", i |-> 0]
    /\ cons = [pc |-> "", item |-> 0]
    /\ qmain = [pc |-> ""]

\* the barrier test is not running
BarrierUnused ==
    /\ barrier = [count |-> 0, state |-> ""]
    /\ arrivals = <<>>
    /\ block = 0
    /\ bwrk = <<>>
    /\ bmain = [pc |-> "", n |-> 0]

\* the gather tests are not running
GatherUnused ==
    /\ coro = <<>>
    /\ completed = <<>>
    /\ gathered = <<>>
    /\ gmain = [pc |-> ""]

\* the context-manager tests are not running
CtxUnused ==
    /\ events = <<>>
    /\ cm = [pc |-> "", kinds |-> <<>>]

\* the singleton test is not running
SingletonUnused ==
    /\ instances = <<>>
    /\ created = 0
    /\ sthr = <<>>

\* the generic Stack test is not running
StackUnused ==
    /\ items = <<>>
    /\ sops = <<>>

\* the iterator tests are not running
IterUnused ==
    /\ it = [kind |-> "", arg |-> 0, current |-> 0]
    /\ yielded = <<>>
    /\ stops = 0

\* the descriptor tests are not running
DescUnused ==
    /\ dobj = [cls |-> "", dict |-> <<>>]
    /\ dlog = <<>>

\* the EventBus test is not running
BusUnused ==
    /\ handlers = <<>>
    /\ notifications = <<>>
    /\ bops = <<>>

\* src/common/types.py is not in use
TypesUnused ==
    /\ heap = <<>>
    /\ given = <<>>
    /\ last = <<>>
    /\ log = <<>>
    /\ thr = <<>>

(***************************************************************************)
(* Bounds of the model.                                                    *)
(***************************************************************************)
\* how many Result objects a run constructs
MaxResults == 2

\* how many calls are made on the Result whose calls are logged
MaxLog == 3

\* how many threads call the component concurrently
NumThreads == 2

\* how many Results the threads share
SharedResults == 1

\* how many threads increment the counter (4 in the tests)
NumIncThreads == 3

\* how many increments each thread performs (1000 and 100 in the tests)
Increments == 2

\* how many workers use the semaphore (6 threads, 5 tasks in the tests)
SemWorkers == 3

\* how many items the producer puts before the sentinel (5 in the test)
NumItems == 4

\* how many coroutines are gathered (3 in the tests)
NumCoros == 4

\* how many with statements are run one after the other (1 in each test)
MaxWith == 4

\* how many calls of Singleton() are made (2 in the test)
NumCallers == 4

\* how many of the callers of Singleton() are threads running concurrently
NumCallerThreads == 3

\* how many calls are made on the stack (5 in the test)
MaxStackOps == 4

\* the greatest argument of Countdown and AsyncRange (3 and 4 in the tests)
MaxCount == 6

\* how many next calls are made on an exhausted iterator
MaxStops == 3

\* how many assignments are made to the validated attribute (2 in the tests)
MaxAssign == 3

\* how many calls are made on the EventBus (3 in the test)
MaxBusOps == 3

Addrs == 1..MaxResults

(***************************************************************************)
(* Python objects.                                                         *)
(***************************************************************************)
T_object   == "<class 'object'>"
T_int      == "<class 'int'>"
T_bool     == "<class 'bool'>"
T_str      == "<class 'str'>"
T_list     == "<class 'list'>"
T_tuple    == "<class 'tuple'>"
T_NoneType == "<class 'NoneType'>"

Types == {T_object, T_int, T_bool, T_str, T_list, T_tuple, T_NoneType}

Obj(t, lit) == [type |-> t, lit |-> lit]

None     == Obj(T_NoneType, "None")
True     == Obj(T_bool, "True")
False    == Obj(T_bool, "False")
PyInt(d) == Obj(T_int, d)
PyStr(s) == Obj(T_str, s)
PyBool(b) == IF b THEN True ELSE False

\* the values the callers pass as Result values and to ensure_type
Values ==
    { None, True, PyInt("5"), PyStr("5"),
      Obj(T_list, "[1, 2, 3]"), Obj(T_tuple, "(1, 2, 3)") }

\* the values stored in a Result (value: T | None)
ResultValues == { None, PyInt("42") }

\* the error strings the callers pass (error: str | None)
ErrorStrings == { "", "not found" }
Errors == { None } \cup { PyStr(e) : e \in ErrorStrings }

\* the names the callers pass to ensure_type, or none at all
NameStrings == { "items", "count" }
Omitted == [given |-> FALSE, name |-> ""]
NameArgs == { Omitted } \cup { [given |-> TRUE, name |-> n] : n \in NameStrings }

\* type(value)
type(v) == v.type

\* bool(value): the truth value of an object
bool(v) ==
    CASE v.type = T_NoneType -> FALSE
      [] v.type = T_bool     -> v.lit = "True"
      [] v.type = T_int      -> v.lit # "0"
      [] v.type = T_str      -> v.lit # ""
      [] v.type = T_list     -> v.lit # "[]"
      [] v.type = T_tuple    -> v.lit # "()"
      [] OTHER               -> TRUE

\* cls.__name__
type_name(t) ==
    CASE t = T_object   -> "object"
      [] t = T_int      -> "int"
      [] t = T_bool     -> "bool"
      [] t = T_str      -> "str"
      [] t = T_list     -> "list"
      [] t = T_tuple    -> "tuple"
      [] t = T_NoneType -> "NoneType"

\* the direct base classes of a builtin class
bases(t) ==
    CASE t = T_object -> {}
      [] t = T_bool   -> {T_int}
      [] OTHER        -> {T_object}

\* the class and all its ancestors (cls.__mro__ as a set)
RECURSIVE mro(_)
mro(t) == {t} \cup UNION { mro(b) : b \in bases(t) }

\* isinstance(value, cls)
isinstance(value, cls) == cls \in mro(type(value))

\* format(value, ""), what an f-string field {value} produces: str(value),
\* which for a str is its text and for the other objects here their literal
format(v) == v.lit

(***************************************************************************)
(* Outcomes of calls.                                                      *)
(***************************************************************************)
NoObject == Obj("", "")

Return(v)      == [outcome |-> "return", ret |-> v, exc |-> "", msg |-> ""]
Raise(exc, m)  == [outcome |-> "raise", ret |-> NoObject, exc |-> exc, msg |-> m]

\* sub occurs in s (Python: sub in s)
Contains(s, sub) ==
    \E i \in 1..(Len(s) - Len(sub) + 1) : SubSeq(s, i, i + Len(sub) - 1) = sub

(***************************************************************************)
(* class Result                                                            *)
(***************************************************************************)
UNALLOCATED == [value |-> NoObject, error |-> NoObject]

Allocated == { a \in Addrs : heap[a] # UNALLOCATED }

Result_init_shared(h, self, value, error) ==
    [a \in DOMAIN h |->
        IF a = self \/ h[a] # UNALLOCATED
        THEN [value |-> value, error |-> error]
        ELSE h[a]]

Result_init_exclusive(h, self, value, error) ==
    [h EXCEPT ![self] = [value |-> IF error = None THEN value ELSE None,
                         error |-> error]]

\* Result.__init__: the heap after self.value = value; self.error = error
Result_init(h, self, value, error) ==
    [h EXCEPT ![self] = [value |-> value, error |-> error]]

is_ok_by_value(self) == PyBool(self.value # None)

is_ok_truthy(self) == PyBool(~bool(self.error))

\* Result.is_ok
is_ok(self) == PyBool(self.error = None)

is_err_truthy(self) == PyBool(bool(self.error))

\* Result.is_err
is_err(self) == PyBool(self.error # None)

unwrap_truthy(self) ==
    IF bool(is_err(self)) \/ ~bool(self.value)
    THEN Raise("ValueError", "Called unwrap on error: " \o format(self.error))
    ELSE Return(self.value)

unwrap_no_text(self) ==
    IF bool(is_err(self))
    THEN Raise("ValueError", "Called unwrap on error")
    ELSE Return(self.value)

unwrap_value_first(self) ==
    IF self.value # None
    THEN Return(self.value)
    ELSE IF bool(is_err(self))
         THEN Raise("ValueError", "Called unwrap on error: " \o format(self.error))
         ELSE Return(self.value)

\* Result.unwrap
unwrap(self) ==
    IF bool(is_err(self))
    THEN Raise("ValueError", "Called unwrap on error: " \o format(self.error))
    ELSE Return(self.value)

unwrap_effect_clears_error(h, self) ==
    IF h[self].error # None THEN [h EXCEPT ![self].error = None] ELSE h

unwrap_effect_takes_value(h, self) ==
    IF h[self].error = None THEN [h EXCEPT ![self].value = None] ELSE h

\* the heap after Result.unwrap: its body assigns no attribute
unwrap_effect(h, self) == h

(***************************************************************************)
(* ensure_type                                                             *)
(***************************************************************************)
DefaultName_other == "name"

\* the default of the parameter name
DefaultName == "value"

\* the binding of the parameter name at a call
bind_name(nameArg) == IF nameArg.given THEN nameArg.name ELSE DefaultName

ensure_type_swapped(value, expected_type, name) ==
    IF ~isinstance(value, expected_type)
    THEN Raise("TypeError",
               name \o " must be " \o type_name(type(value)) \o ", "
                    \o "got " \o type_name(expected_type))
    ELSE Return(None)

ensure_type_returns_value(value, expected_type, name) ==
    IF ~isinstance(value, expected_type)
    THEN Raise("TypeError",
               name \o " must be " \o type_name(expected_type) \o ", "
                    \o "got " \o type_name(type(value)))
    ELSE Return(value)

ensure_type_truthy(value, expected_type, name) ==
    IF ~(isinstance(value, expected_type) \/ ~bool(value))
    THEN Raise("TypeError",
               name \o " must be " \o type_name(expected_type) \o ", "
                    \o "got " \o type_name(type(value)))
    ELSE Return(None)

ensure_type_exact(value, expected_type, name) ==
    IF type(value) # expected_type
    THEN Raise("TypeError",
               name \o " must be " \o type_name(expected_type) \o ", "
                    \o "got " \o type_name(type(value)))
    ELSE Return(None)

\* ensure_type(value, expected_type, name)
ensure_type(value, expected_type, name) ==
    IF ~isinstance(value, expected_type)
    THEN Raise("TypeError",
               name \o " must be " \o type_name(expected_type) \o ", "
                    \o "got " \o type_name(type(value)))
    ELSE Return(None)

(***************************************************************************)
(* The calls a client makes.                                               *)
(***************************************************************************)
NoCtor == [value |-> NoObject, error |-> NoObject]

Call(op, self, value, expected_type, nameArg, out) ==
    [op |-> op, self |-> self, value |-> value, expected_type |-> expected_type,
     nameArg |-> nameArg, out |-> out]

NoCall == Call("", 0, NoObject, "", Omitted, Return(NoObject))

\* no call has been logged
NoLog == <<>>

\* no thread exists
NoThreads == <<>>

Init ==
    /\ heap = [a \in Addrs |-> UNALLOCATED]
    /\ given = [a \in Addrs |-> NoCtor]
    /\ last = NoCall
    /\ log = NoLog
    /\ thr = NoThreads
    /\ CounterUnused
    /\ SemUnused
    /\ QueueUnused
    /\ BarrierUnused
    /\ GatherUnused
    /\ CtxUnused
    /\ SingletonUnused
    /\ StackUnused
    /\ IterUnused
    /\ DescUnused
    /\ BusUnused

DefaultValue_zero == PyInt("0")

\* the default of the parameter value
DefaultValue == None

DefaultError_empty == PyStr("")

\* the default of the parameter error
DefaultError == None

\* r = Result(value, error)
Construct(value, error) ==
    /\ Cardinality(Allocated) < MaxResults
    /\ LET self == Cardinality(Allocated) + 1 IN
        /\ heap' = Result_init(heap, self, value, error)
        /\ given' = [given EXCEPT ![self] = [value |-> value, error |-> error]]
        /\ last' = Call("Result", self, value, "", Omitted, Return(None))
    /\ UNCHANGED <<hist_vars, thread_vars, outside_types>>

\* r = Result()
ConstructDefault ==
    /\ Cardinality(Allocated) < MaxResults
    /\ LET self == Cardinality(Allocated) + 1 IN
        /\ heap' = Result_init(heap, self, DefaultValue, DefaultError)
        /\ given' = [given EXCEPT ![self] =
                        [value |-> DefaultValue, error |-> DefaultError]]
        /\ last' = Call("Result()", self, NoObject, "", Omitted, Return(None))
    /\ UNCHANGED <<hist_vars, thread_vars, outside_types>>

\* r.is_ok
GetIsOk(self) ==
    /\ self \in Allocated
    /\ last' = Call("is_ok", self, NoObject, "", Omitted, Return(is_ok(heap[self])))
    /\ UNCHANGED <<heap, given, hist_vars, thread_vars, outside_types>>

\* r.is_err
GetIsErr(self) ==
    /\ self \in Allocated
    /\ last' = Call("is_err", self, NoObject, "", Omitted, Return(is_err(heap[self])))
    /\ UNCHANGED <<heap, given, hist_vars, thread_vars, outside_types>>

\* r.unwrap()
CallUnwrap(self) ==
    /\ self \in Allocated
    /\ last' = Call("unwrap", self, NoObject, "", Omitted, unwrap(heap[self]))
    /\ heap' = unwrap_effect(heap, self)
    /\ UNCHANGED <<given, hist_vars, thread_vars, outside_types>>

\* ensure_type(value, expected_type) or ensure_type(value, expected_type, name)
CallEnsureType(value, expected_type, nameArg) ==
    /\ last' = Call("ensure_type", 0, value, expected_type, nameArg,
                    ensure_type(value, expected_type, bind_name(nameArg)))
    /\ UNCHANGED <<heap, given, hist_vars, thread_vars, outside_types>>

Next ==
    \/ \E v \in ResultValues, e \in Errors : Construct(v, e)
    \/ ConstructDefault
    \/ \E a \in Addrs : GetIsOk(a)
    \/ \E a \in Addrs : GetIsErr(a)
    \/ \E a \in Addrs : CallUnwrap(a)
    \/ \E v \in Values, t \in Types, n \in NameArgs : CallEnsureType(v, t, n)

Spec == Init /\ [][Next]_vars

(***************************************************************************)
(* A client that constructs one Result and then calls is_ok, is_err and    *)
(* unwrap on it in any order, any number of times; log keeps every call.   *)
(***************************************************************************)
HistInit ==
    /\ \E v \in ResultValues, e \in Errors :
          /\ heap = Result_init([a \in Addrs |-> UNALLOCATED], 1, v, e)
          /\ given = [a \in Addrs |->
                        IF a = 1 THEN [value |-> v, error |-> e] ELSE NoCtor]
    /\ last = NoCall
    /\ log = NoLog
    /\ thr = NoThreads
    /\ CounterUnused
    /\ SemUnused
    /\ QueueUnused
    /\ BarrierUnused
    /\ GatherUnused
    /\ CtxUnused
    /\ SingletonUnused
    /\ StackUnused
    /\ IterUnused
    /\ DescUnused
    /\ BusUnused

\* r.is_ok
LogIsOk(self) ==
    /\ Len(log) < MaxLog
    /\ self \in Allocated
    /\ last' = Call("is_ok", self, NoObject, "", Omitted, Return(is_ok(heap[self])))
    /\ log' = Append(log, last')
    /\ UNCHANGED <<heap, given, thread_vars, outside_types>>

\* r.is_err
LogIsErr(self) ==
    /\ Len(log) < MaxLog
    /\ self \in Allocated
    /\ last' = Call("is_err", self, NoObject, "", Omitted, Return(is_err(heap[self])))
    /\ log' = Append(log, last')
    /\ UNCHANGED <<heap, given, thread_vars, outside_types>>

\* r.unwrap(), the caller catching what it raises
LogUnwrap(self) ==
    /\ Len(log) < MaxLog
    /\ self \in Allocated
    /\ last' = Call("unwrap", self, NoObject, "", Omitted, unwrap(heap[self]))
    /\ log' = Append(log, last')
    /\ heap' = unwrap_effect(heap, self)
    /\ UNCHANGED <<given, thread_vars, outside_types>>

HistNext ==
    \/ \E a \in Addrs : LogIsOk(a)
    \/ \E a \in Addrs : LogIsErr(a)
    \/ \E a \in Addrs : LogUnwrap(a)

SpecHist == HistInit /\ [][HistNext]_vars

(***************************************************************************)
(* Threads that call is_ok, is_err, unwrap and ensure_type concurrently,   *)
(* with no coordination.  A thread switch can happen between the test of   *)
(* an if statement and the statement it guards, so unwrap and ensure_type  *)
(* take two steps: the test, then the raise or the return.                 *)
(***************************************************************************)
Threads == 1..NumThreads

\* the arguments the threads pass to ensure_type
ThreadEnsureArgs ==
    { <<True, T_int, Omitted>>,
      <<PyStr("5"), T_int, Omitted>>,
      <<Obj(T_tuple, "(1, 2, 3)"), T_list, [given |-> TRUE, name |-> "items"]>> }

\* a thread: where it is in its call (idle, act, done), the call, the value
\* of the condition it tested, and the error it read when it tested
Frame(pc, call, cond, checked) ==
    [pc |-> pc, call |-> call, cond |-> cond, checked |-> checked]

IdleFrame == Frame("idle", NoCall, NoObject, NoObject)

CanCall(t) == thr[t].pc \in {"idle", "done"}

locals_shared(t) == 1

\* the frame that holds the temporaries of the call of thread t: its own
locals_of(t) == t

ThreadsInit ==
    /\ \E f \in [1..SharedResults -> ResultValues \X Errors] :
          /\ heap = [a \in Addrs |->
                       IF a <= SharedResults
                       THEN [value |-> f[a][1], error |-> f[a][2]]
                       ELSE UNALLOCATED]
          /\ given = [a \in Addrs |->
                        IF a <= SharedResults
                        THEN [value |-> f[a][1], error |-> f[a][2]]
                        ELSE NoCtor]
    /\ last = NoCall
    /\ log = NoLog
    /\ thr = [t \in Threads |-> IdleFrame]
    /\ CounterUnused
    /\ SemUnused
    /\ QueueUnused
    /\ BarrierUnused
    /\ GatherUnused
    /\ CtxUnused
    /\ SingletonUnused
    /\ StackUnused
    /\ IterUnused
    /\ DescUnused
    /\ BusUnused

\* r.is_ok in thread t
ThreadIsOk(t, self) ==
    /\ CanCall(t)
    /\ self \in Allocated
    /\ thr' = [thr EXCEPT ![t] =
                  Frame("done",
                        Call("is_ok", self, NoObject, "", Omitted,
                             Return(is_ok(heap[self]))),
                        NoObject, NoObject)]
    /\ UNCHANGED <<result_vars, hist_vars, outside_types>>

\* r.is_err in thread t
ThreadIsErr(t, self) ==
    /\ CanCall(t)
    /\ self \in Allocated
    /\ thr' = [thr EXCEPT ![t] =
                  Frame("done",
                        Call("is_err", self, NoObject, "", Omitted,
                             Return(is_err(heap[self]))),
                        NoObject, NoObject)]
    /\ UNCHANGED <<result_vars, hist_vars, outside_types>>

\* r.unwrap() in thread t, up to the test `if self.is_err`
ThreadUnwrapTest(t, self) ==
    /\ CanCall(t)
    /\ self \in Allocated
    /\ thr' = [thr EXCEPT
                  ![t] = Frame("act",
                               Call("unwrap", self, NoObject, "", Omitted,
                                    Return(NoObject)),
                               @.cond, heap[self].error),
                  ![locals_of(t)].cond = is_err(heap[self])]
    /\ UNCHANGED <<result_vars, hist_vars, outside_types>>

\* r.unwrap() in thread t, after the test: the raise or the return
ThreadUnwrapAct(t) ==
    /\ thr[t].pc = "act"
    /\ thr[t].call.op = "unwrap"
    /\ LET self == heap[thr[t].call.self]
           out  == IF bool(thr[locals_of(t)].cond)
                   THEN Raise("ValueError",
                              "Called unwrap on error: " \o format(self.error))
                   ELSE Return(self.value)
       IN thr' = [thr EXCEPT ![t].pc = "done", ![t].call.out = out]
    /\ UNCHANGED <<result_vars, hist_vars, outside_types>>

\* ensure_type(value, expected_type, name) in thread t, up to the test
\* `if not isinstance(value, expected_type)`
ThreadEnsureTest(t, value, expected_type, nameArg) ==
    /\ CanCall(t)
    /\ thr' = [thr EXCEPT
                  ![t] = Frame("act",
                               Call("ensure_type", 0, value, expected_type,
                                    nameArg, Return(NoObject)),
                               @.cond, NoObject),
                  ![locals_of(t)].cond = PyBool(~isinstance(value, expected_type))]
    /\ UNCHANGED <<result_vars, hist_vars, outside_types>>

\* ensure_type in thread t, after the test: the raise or the return
ThreadEnsureAct(t) ==
    /\ thr[t].pc = "act"
    /\ thr[t].call.op = "ensure_type"
    /\ LET c   == thr[t].call
           out == IF bool(thr[locals_of(t)].cond)
                  THEN Raise("TypeError",
                             bind_name(c.nameArg) \o " must be "
                                \o type_name(c.expected_type) \o ", "
                                \o "got " \o type_name(type(c.value)))
                  ELSE Return(None)
       IN thr' = [thr EXCEPT ![t].pc = "done", ![t].call.out = out]
    /\ UNCHANGED <<result_vars, hist_vars, outside_types>>

\* the next step of the call thread t is executing
ThreadAct(t) == ThreadUnwrapAct(t) \/ ThreadEnsureAct(t)

ThreadsNext ==
    \E t \in Threads :
        \/ \E a \in Addrs : ThreadIsOk(t, a)
        \/ \E a \in Addrs : ThreadIsErr(t, a)
        \/ \E a \in Addrs : ThreadUnwrapTest(t, a)
        \/ ThreadUnwrapAct(t)
        \/ \E x \in ThreadEnsureArgs : ThreadEnsureTest(t, x[1], x[2], x[3])
        \/ ThreadEnsureAct(t)

SpecThreads == ThreadsInit /\ [][ThreadsNext]_vars

(***************************************************************************)
(* Threads that call unwrap while other threads assign the error attribute *)
(* of the same Result.  value and error are plain instance attributes: the *)
(* class defines no __slots__, no __setattr__ and no lock.                 *)
(***************************************************************************)
\* one Result, constructed from any value and error, shared by the threads
RaceInit ==
    /\ \E v \in ResultValues, e \in Errors :
          /\ heap = Result_init([a \in Addrs |-> UNALLOCATED], 1, v, e)
          /\ given = [a \in Addrs |->
                        IF a = 1 THEN [value |-> v, error |-> e] ELSE NoCtor]
    /\ last = NoCall
    /\ log = NoLog
    /\ thr = [t \in Threads |-> IdleFrame]
    /\ CounterUnused
    /\ SemUnused
    /\ QueueUnused
    /\ BarrierUnused
    /\ GatherUnused
    /\ CtxUnused
    /\ SingletonUnused
    /\ StackUnused
    /\ IterUnused
    /\ DescUnused
    /\ BusUnused

\* r.error = error in thread t
AssignError(t, self, error) ==
    /\ CanCall(t)
    /\ self \in Allocated
    /\ heap' = [heap EXCEPT ![self].error = error]
    /\ UNCHANGED <<given, last, hist_vars, thread_vars, outside_types>>

RaceNext ==
    \E t \in Threads :
        \/ \E a \in Addrs : ThreadUnwrapTest(t, a)
        \/ ThreadUnwrapAct(t)
        \/ \E a \in Addrs, e \in Errors : AssignError(t, a, e)

SpecRace == RaceInit /\ [][RaceNext]_vars

(***************************************************************************)
(* test_lock_mutual_exclusion: threads that each increment counter[0] in a *)
(* loop, every increment inside `with lock`.  counter[0] += 1 loads the    *)
(* item, adds one and stores it: a thread switch can fall between the load *)
(* and the store.  test_thread_safe_with_lock runs the same loop as tasks  *)
(* of a pool with as many workers as tasks.                                *)
(***************************************************************************)
IncThreads == 1..NumIncThreads

IncFrame(pc, i, tmp) == [pc |-> pc, i |-> i, tmp |-> tmp]

can_acquire_unlocked(l) == TRUE

\* Lock.acquire returns only when no thread holds the lock
can_acquire(l) == l = 0

\* the position of a thread that has done i rounds of the for loop
loop_pc(i) == IF i < Increments THEN "acquire" ELSE "end"

CounterInit ==
    /\ counter = 0
    /\ lock = 0
    /\ inc = [t \in IncThreads |-> IncFrame("new", 0, 0)]
    /\ cmain = [pc |-> "start", n |-> 0]
    /\ TypesUnused
    /\ SemUnused
    /\ QueueUnused
    /\ BarrierUnused
    /\ GatherUnused
    /\ CtxUnused
    /\ SingletonUnused
    /\ StackUnused
    /\ IterUnused
    /\ DescUnused
    /\ BusUnused

\* for t in threads: t.start()
CounterStart ==
    /\ cmain.pc = "start"
    /\ cmain.n < NumIncThreads
    /\ inc' = [inc EXCEPT ![cmain.n + 1].pc = loop_pc(0)]
    /\ cmain' = IF cmain.n + 1 < NumIncThreads
                THEN [cmain EXCEPT !.n = @ + 1]
                ELSE [pc |-> "join", n |-> 0]
    /\ UNCHANGED <<counter, lock, outside_counter>>

\* with lock: entering
IncAcquire(t) ==
    /\ inc[t].pc = "acquire"
    /\ can_acquire(lock)
    /\ lock' = t
    /\ inc' = [inc EXCEPT ![t].pc = "load"]
    /\ UNCHANGED <<counter, cmain, outside_counter>>

\* counter[0] += 1: the load
IncLoad(t) ==
    /\ inc[t].pc = "load"
    /\ inc' = [inc EXCEPT ![t].pc = "store", ![t].tmp = counter]
    /\ UNCHANGED <<counter, lock, cmain, outside_counter>>

\* counter[0] += 1: the store
IncStore(t) ==
    /\ inc[t].pc = "store"
    /\ counter' = inc[t].tmp + 1
    /\ inc' = [inc EXCEPT ![t].pc = "release", ![t].tmp = 0]
    /\ UNCHANGED <<lock, cmain, outside_counter>>

\* with lock: leaving, then the next round of the for loop
IncRelease(t) ==
    /\ inc[t].pc = "release"
    /\ lock' = 0
    /\ inc' = [inc EXCEPT ![t].pc = loop_pc(inc[t].i + 1), ![t].i = @ + 1]
    /\ UNCHANGED <<counter, cmain, outside_counter>>

\* for t in threads: t.join()
CounterJoin ==
    /\ cmain.pc = "join"
    /\ inc[cmain.n + 1].pc = "end"
    /\ cmain' = IF cmain.n + 1 < NumIncThreads
                THEN [cmain EXCEPT !.n = @ + 1]
                ELSE [pc |-> "assert", n |-> 0]
    /\ UNCHANGED <<counter, lock, inc, outside_counter>>

\* assert counter[0] == 4000
CounterAssert ==
    /\ cmain.pc = "assert"
    /\ cmain' = [cmain EXCEPT !.pc =
                    IF counter = NumIncThreads * Increments
                    THEN "passed" ELSE "AssertionError"]
    /\ UNCHANGED <<counter, lock, inc, outside_counter>>

IncStep(t) ==
    IncAcquire(t) \/ IncLoad(t) \/ IncStore(t) \/ IncRelease(t)

CounterMain == CounterStart \/ CounterJoin \/ CounterAssert

CounterNext ==
    \/ CounterStart
    \/ \E t \in IncThreads : IncAcquire(t)
    \/ \E t \in IncThreads : IncLoad(t)
    \/ \E t \in IncThreads : IncStore(t)
    \/ \E t \in IncThreads : IncRelease(t)
    \/ CounterJoin
    \/ CounterAssert

\* every started thread and the test function keep being scheduled
CounterFairness ==
    /\ WF_vars(CounterMain)
    /\ \A t \in IncThreads : WF_vars(IncStep(t))

SpecCounter == CounterInit /\ [][CounterNext]_vars /\ CounterFairness

(***************************************************************************)
(* test_semaphore_limits_access: workers that do their work inside a       *)
(* Semaphore(2), counting how many are inside under a separate lock.       *)
(***************************************************************************)
\* threading.Semaphore(2)
SemPermits == 2

SemThreads == 1..SemWorkers

SemFrame(pc, tmp) == [pc |-> pc, tmp |-> tmp]

sem_can_acquire_any(s) == TRUE

\* Semaphore.acquire returns only when the internal counter is above zero
sem_can_acquire(s) == s > 0

\* the positions of a worker that is inside "with sem"
InsideSem ==
    {"lock1", "load1", "store1", "max", "unlock1", "sleep",
     "lock2", "load2", "store2", "unlock2", "sem_release"}

SemInit ==
    /\ sem = SemPermits
    /\ slock = 0
    /\ current = 0
    /\ max_concurrent = 0
    /\ wrk = [t \in SemThreads |-> SemFrame("new", 0)]
    /\ smain = [pc |-> "start", n |-> 0]
    /\ TypesUnused
    /\ CounterUnused
    /\ QueueUnused
    /\ BarrierUnused
    /\ GatherUnused
    /\ CtxUnused
    /\ SingletonUnused
    /\ StackUnused
    /\ IterUnused
    /\ DescUnused
    /\ BusUnused

\* for t in threads: t.start()
SemStart ==
    /\ smain.pc = "start"
    /\ smain.n < SemWorkers
    /\ wrk' = [wrk EXCEPT ![smain.n + 1].pc = "sem_acquire"]
    /\ smain' = IF smain.n + 1 < SemWorkers
                THEN [smain EXCEPT !.n = @ + 1]
                ELSE [pc |-> "join", n |-> 0]
    /\ UNCHANGED <<sem, slock, current, max_concurrent, outside_sem>>

\* with sem: entering
SemAcquire(t) ==
    /\ wrk[t].pc = "sem_acquire"
    /\ sem_can_acquire(sem)
    /\ sem' = sem - 1
    /\ wrk' = [wrk EXCEPT ![t].pc = "lock1"]
    /\ UNCHANGED <<slock, current, max_concurrent, smain, outside_sem>>

\* with lock: entering (the first and the second block)
SemLock(t) ==
    /\ wrk[t].pc \in {"lock1", "lock2"}
    /\ can_acquire(slock)
    /\ slock' = t
    /\ wrk' = [wrk EXCEPT ![t].pc = IF @ = "lock1" THEN "load1" ELSE "load2"]
    /\ UNCHANGED <<sem, current, max_concurrent, smain, outside_sem>>

\* current[0] += 1 and current[0] -= 1: the load
SemLoad(t) ==
    /\ wrk[t].pc \in {"load1", "load2"}
    /\ wrk' = [wrk EXCEPT ![t].pc = IF @ = "load1" THEN "store1" ELSE "store2",
                          ![t].tmp = current]
    /\ UNCHANGED <<sem, slock, current, max_concurrent, smain, outside_sem>>

\* current[0] += 1: the store
SemStoreInc(t) ==
    /\ wrk[t].pc = "store1"
    /\ current' = wrk[t].tmp + 1
    /\ wrk' = [wrk EXCEPT ![t] = SemFrame("max", 0)]
    /\ UNCHANGED <<sem, slock, max_concurrent, smain, outside_sem>>

\* if current[0] > max_concurrent[0]: max_concurrent[0] = current[0]
SemRecordMax(t) ==
    /\ wrk[t].pc = "max"
    /\ max_concurrent' = IF current > max_concurrent
                         THEN current ELSE max_concurrent
    /\ wrk' = [wrk EXCEPT ![t].pc = "unlock1"]
    /\ UNCHANGED <<sem, slock, current, smain, outside_sem>>

\* with lock: leaving (the first and the second block)
SemUnlock(t) ==
    /\ wrk[t].pc \in {"unlock1", "unlock2"}
    /\ slock' = 0
    /\ wrk' = [wrk EXCEPT ![t].pc =
                  IF @ = "unlock1" THEN "sleep" ELSE "sem_release"]
    /\ UNCHANGED <<sem, current, max_concurrent, smain, outside_sem>>

\* time.sleep(0.01)
SemSleep(t) ==
    /\ wrk[t].pc = "sleep"
    /\ wrk' = [wrk EXCEPT ![t].pc = "lock2"]
    /\ UNCHANGED <<sem, slock, current, max_concurrent, smain, outside_sem>>

\* current[0] -= 1: the store
SemStoreDec(t) ==
    /\ wrk[t].pc = "store2"
    /\ current' = wrk[t].tmp - 1
    /\ wrk' = [wrk EXCEPT ![t] = SemFrame("unlock2", 0)]
    /\ UNCHANGED <<sem, slock, max_concurrent, smain, outside_sem>>

\* with sem: leaving, the end of worker
SemRelease(t) ==
    /\ wrk[t].pc = "sem_release"
    /\ sem' = sem + 1
    /\ wrk' = [wrk EXCEPT ![t].pc = "end"]
    /\ UNCHANGED <<slock, current, max_concurrent, smain, outside_sem>>

\* for t in threads: t.join()
SemJoin ==
    /\ smain.pc = "join"
    /\ wrk[smain.n + 1].pc = "end"
    /\ smain' = IF smain.n + 1 < SemWorkers
                THEN [smain EXCEPT !.n = @ + 1]
                ELSE [pc |-> "assert", n |-> 0]
    /\ UNCHANGED <<sem, slock, current, max_concurrent, wrk, outside_sem>>

\* assert max_concurrent[0] <= 2
SemAssert ==
    /\ smain.pc = "assert"
    /\ smain' = [smain EXCEPT !.pc =
                    IF max_concurrent <= 2 THEN "passed" ELSE "AssertionError"]
    /\ UNCHANGED <<sem, slock, current, max_concurrent, wrk, outside_sem>>

SemStep(t) ==
    \/ SemAcquire(t) \/ SemLock(t) \/ SemLoad(t) \/ SemStoreInc(t)
    \/ SemRecordMax(t) \/ SemUnlock(t) \/ SemSleep(t) \/ SemStoreDec(t)
    \/ SemRelease(t)

SemMain == SemStart \/ SemJoin \/ SemAssert

SemNext ==
    \/ SemStart
    \/ \E t \in SemThreads : SemAcquire(t)
    \/ \E t \in SemThreads : SemLock(t)
    \/ \E t \in SemThreads : SemLoad(t)
    \/ \E t \in SemThreads : SemStoreInc(t)
    \/ \E t \in SemThreads : SemRecordMax(t)
    \/ \E t \in SemThreads : SemUnlock(t)
    \/ \E t \in SemThreads : SemSleep(t)
    \/ \E t \in SemThreads : SemStoreDec(t)
    \/ \E t \in SemThreads : SemRelease(t)
    \/ SemJoin
    \/ SemAssert

\* every started worker and the test function keep being scheduled
SemFairness ==
    /\ WF_vars(SemMain)
    /\ \A t \in SemThreads : WF_vars(SemStep(t))

SpecSem == SemInit /\ [][SemNext]_vars /\ SemFairness

(***************************************************************************)
(* test_queue_producer_consumer: a producer and a consumer thread over a   *)
(* queue.Queue, with None as the sentinel.  An entry of q is an int or     *)
(* None.                                                                   *)
(***************************************************************************)
QInt(i) == [is_none |-> FALSE, int |-> i]
QNone   == [is_none |-> TRUE, int |-> 0]

\* Queue.put: unbounded, so it never blocks
put(queue, item) == Append(queue, item)

get_newest(queue) == queue[Len(queue)]

\* Queue.get: blocks while the queue is empty, then takes the oldest entry
can_get(queue) == Len(queue) > 0
get(queue)     == Head(queue)
after_get(queue) == Tail(queue)

RECURSIVE insert_sorted(_, _)
insert_sorted(seq, x) ==
    IF seq = <<>> THEN <<x>>
    ELSE IF x <= Head(seq) THEN <<x>> \o seq
    ELSE <<Head(seq)>> \o insert_sorted(Tail(seq), x)

RECURSIVE sorted(_)
sorted(seq) ==
    IF seq = <<>> THEN <<>>
    ELSE insert_sorted(sorted(Tail(seq)), Head(seq))

\* [0, 1, 2, 3, 4]
Expected == [k \in 1..NumItems |-> k - 1]

QueueInit ==
    /\ q = <<>>
    /\ results = <<>>
    /\ qlock = 0
    /\ prod = [pc |-> "new", i |-> 0]
    /\ cons = [pc |-> "new", item |-> QNone]
    /\ qmain = [pc |-> "start1"]
    /\ CounterUnused
    /\ SemUnused
    /\ TypesUnused
    /\ BarrierUnused
    /\ GatherUnused
    /\ CtxUnused
    /\ SingletonUnused
    /\ StackUnused
    /\ IterUnused
    /\ DescUnused
    /\ BusUnused

\* t1.start()
QueueStartProducer ==
    /\ qmain.pc = "start1"
    /\ prod' = [prod EXCEPT !.pc = IF NumItems > 0 THEN "put" ELSE "sentinel"]
    /\ qmain' = [qmain EXCEPT !.pc = "start2"]
    /\ UNCHANGED <<q, results, qlock, cons, outside_queue>>

\* t2.start()
QueueStartConsumer ==
    /\ qmain.pc = "start2"
    /\ cons' = [cons EXCEPT !.pc = "get"]
    /\ qmain' = [qmain EXCEPT !.pc = "join1"]
    /\ UNCHANGED <<q, results, qlock, prod, outside_queue>>

\* for i in range(5): q.put(i)
ProducerPut ==
    /\ prod.pc = "put"
    /\ q' = put(q, QInt(prod.i))
    /\ prod' = IF prod.i + 1 < NumItems
               THEN [prod EXCEPT !.i = @ + 1]
               ELSE [pc |-> "sentinel", i |-> prod.i + 1]
    /\ UNCHANGED <<results, qlock, cons, qmain, outside_queue>>

\* q.put(None), the end of producer
ProducerSentinel ==
    /\ prod.pc = "sentinel"
    /\ q' = put(q, QNone)
    /\ prod' = [prod EXCEPT !.pc = "end"]
    /\ UNCHANGED <<results, qlock, cons, qmain, outside_queue>>

\* item = q.get()
ConsumerGet ==
    /\ cons.pc = "get"
    /\ can_get(q)
    /\ cons' = [pc |-> "test", item |-> get(q)]
    /\ q' = after_get(q)
    /\ UNCHANGED <<results, qlock, prod, qmain, outside_queue>>

\* if item is None: break
ConsumerTest ==
    /\ cons.pc = "test"
    /\ cons' = [cons EXCEPT !.pc = IF cons.item.is_none THEN "end" ELSE "lock"]
    /\ UNCHANGED <<q, results, qlock, prod, qmain, outside_queue>>

\* with lock: entering
ConsumerLock ==
    /\ cons.pc = "lock"
    /\ can_acquire(qlock)
    /\ qlock' = 2
    /\ cons' = [cons EXCEPT !.pc = "append"]
    /\ UNCHANGED <<q, results, prod, qmain, outside_queue>>

\* results.append(item)
ConsumerAppend ==
    /\ cons.pc = "append"
    /\ results' = Append(results, cons.item.int)
    /\ cons' = [cons EXCEPT !.pc = "unlock"]
    /\ UNCHANGED <<q, qlock, prod, qmain, outside_queue>>

\* with lock: leaving, then the next round of while True
ConsumerUnlock ==
    /\ cons.pc = "unlock"
    /\ qlock' = 0
    /\ cons' = [cons EXCEPT !.pc = "get"]
    /\ UNCHANGED <<q, results, prod, qmain, outside_queue>>

\* t1.join()
QueueJoinProducer ==
    /\ qmain.pc = "join1"
    /\ prod.pc = "end"
    /\ qmain' = [qmain EXCEPT !.pc = "join2"]
    /\ UNCHANGED <<q, results, qlock, prod, cons, outside_queue>>

\* t2.join()
QueueJoinConsumer ==
    /\ qmain.pc = "join2"
    /\ cons.pc = "end"
    /\ qmain' = [qmain EXCEPT !.pc = "assert"]
    /\ UNCHANGED <<q, results, qlock, prod, cons, outside_queue>>

\* assert sorted(results) == [0, 1, 2, 3, 4]
QueueAssert ==
    /\ qmain.pc = "assert"
    /\ qmain' = [qmain EXCEPT !.pc =
                    IF sorted(results) = Expected
                    THEN "passed" ELSE "AssertionError"]
    /\ UNCHANGED <<q, results, qlock, prod, cons, outside_queue>>

ProducerStep == ProducerPut \/ ProducerSentinel

ConsumerStep ==
    \/ ConsumerGet \/ ConsumerTest \/ ConsumerLock
    \/ ConsumerAppend \/ ConsumerUnlock

QueueMain ==
    \/ QueueStartProducer \/ QueueStartConsumer
    \/ QueueJoinProducer \/ QueueJoinConsumer \/ QueueAssert

QueueNext ==
    \/ QueueStartProducer
    \/ QueueStartConsumer
    \/ ProducerPut
    \/ ProducerSentinel
    \/ ConsumerGet
    \/ ConsumerTest
    \/ ConsumerLock
    \/ ConsumerAppend
    \/ ConsumerUnlock
    \/ QueueJoinProducer
    \/ QueueJoinConsumer
    \/ QueueAssert

\* both threads and the test function keep being scheduled
QueueFairness ==
    /\ WF_vars(QueueMain)
    /\ WF_vars(ProducerStep)
    /\ WF_vars(ConsumerStep)

SpecQueue == QueueInit /\ [][QueueNext]_vars /\ QueueFairness

(***************************************************************************)
(* test_barrier: three workers that wait at a threading.Barrier(3) and     *)
(* then append their id to arrivals under a lock.                          *)
(***************************************************************************)
\* threading.Barrier(3)
Parties == 3

\* threads = [... for i in range(3)]
NumBarrierWorkers == 3

BarrierThreads == 1..NumBarrierWorkers

\* args=(i,) for i in range(3)
worker_id(t) == t - 1

barrier_full_at_once(count) == count >= 1

\* Barrier.wait releases the waiting threads when the last party has arrived
barrier_full(count) == count = Parties

BarrierInit ==
    /\ barrier = [count |-> 0, state |-> "filling"]
    /\ arrivals = <<>>
    /\ block = 0
    /\ bwrk = [t \in BarrierThreads |-> "new"]
    /\ bmain = [pc |-> "start", n |-> 0]
    /\ CounterUnused
    /\ QueueUnused
    /\ SemUnused
    /\ TypesUnused
    /\ GatherUnused
    /\ CtxUnused
    /\ SingletonUnused
    /\ StackUnused
    /\ IterUnused
    /\ DescUnused
    /\ BusUnused

\* for t in threads: t.start()
BarrierStart ==
    /\ bmain.pc = "start"
    /\ bmain.n < NumBarrierWorkers
    /\ bwrk' = [bwrk EXCEPT ![bmain.n + 1] = "wait"]
    /\ bmain' = IF bmain.n + 1 < NumBarrierWorkers
                THEN [bmain EXCEPT !.n = @ + 1]
                ELSE [pc |-> "join", n |-> 0]
    /\ UNCHANGED <<barrier, arrivals, block, outside_barrier>>

\* barrier.wait(): arriving; a thread that arrives while the barrier is
\* draining waits until it is filling again
BarrierArrive(t) ==
    /\ bwrk[t] = "wait"
    /\ barrier.state = "filling"
    /\ barrier' = [count |-> barrier.count + 1,
                   state |-> IF barrier_full(barrier.count + 1)
                             THEN "draining" ELSE "filling"]
    /\ bwrk' = [bwrk EXCEPT ![t] = "waiting"]
    /\ UNCHANGED <<arrivals, block, bmain, outside_barrier>>

\* barrier.wait(): returning, once the barrier has been released
BarrierPass(t) ==
    /\ bwrk[t] = "waiting"
    /\ barrier.state = "draining"
    /\ barrier' = [count |-> barrier.count - 1,
                   state |-> IF barrier.count - 1 = 0
                             THEN "filling" ELSE "draining"]
    /\ bwrk' = [bwrk EXCEPT ![t] = "lock"]
    /\ UNCHANGED <<arrivals, block, bmain, outside_barrier>>

\* with lock: entering
BarrierLock(t) ==
    /\ bwrk[t] = "lock"
    /\ can_acquire(block)
    /\ block' = t
    /\ bwrk' = [bwrk EXCEPT ![t] = "append"]
    /\ UNCHANGED <<barrier, arrivals, bmain, outside_barrier>>

\* arrivals.append(worker_id)
BarrierAppend(t) ==
    /\ bwrk[t] = "append"
    /\ arrivals' = Append(arrivals, worker_id(t))
    /\ bwrk' = [bwrk EXCEPT ![t] = "unlock"]
    /\ UNCHANGED <<barrier, block, bmain, outside_barrier>>

\* with lock: leaving, the end of worker
BarrierUnlock(t) ==
    /\ bwrk[t] = "unlock"
    /\ block' = 0
    /\ bwrk' = [bwrk EXCEPT ![t] = "end"]
    /\ UNCHANGED <<barrier, arrivals, bmain, outside_barrier>>

\* for t in threads: t.join()
BarrierJoin ==
    /\ bmain.pc = "join"
    /\ bwrk[bmain.n + 1] = "end"
    /\ bmain' = IF bmain.n + 1 < NumBarrierWorkers
                THEN [bmain EXCEPT !.n = @ + 1]
                ELSE [pc |-> "assert", n |-> 0]
    /\ UNCHANGED <<barrier, arrivals, block, bwrk, outside_barrier>>

\* assert len(arrivals) == 3
BarrierAssert ==
    /\ bmain.pc = "assert"
    /\ bmain' = [bmain EXCEPT !.pc =
                    IF Len(arrivals) = 3 THEN "passed" ELSE "AssertionError"]
    /\ UNCHANGED <<barrier, arrivals, block, bwrk, outside_barrier>>

BarrierStep(t) ==
    \/ BarrierArrive(t) \/ BarrierPass(t) \/ BarrierLock(t)
    \/ BarrierAppend(t) \/ BarrierUnlock(t)

BarrierMain == BarrierStart \/ BarrierJoin \/ BarrierAssert

BarrierNext ==
    \/ BarrierStart
    \/ \E t \in BarrierThreads : BarrierArrive(t)
    \/ \E t \in BarrierThreads : BarrierPass(t)
    \/ \E t \in BarrierThreads : BarrierLock(t)
    \/ \E t \in BarrierThreads : BarrierAppend(t)
    \/ \E t \in BarrierThreads : BarrierUnlock(t)
    \/ BarrierJoin
    \/ BarrierAssert

\* every started worker and the test function keep being scheduled
BarrierFairness ==
    /\ WF_vars(BarrierMain)
    /\ \A t \in BarrierThreads : WF_vars(BarrierStep(t))

SpecBarrier == BarrierInit /\ [][BarrierNext]_vars /\ BarrierFairness

(***************************************************************************)
(* test_gather_preserves_order, test_gather_runs_concurrently: main()      *)
(* awaits asyncio.gather of coroutines that each sleep once and then       *)
(* return their value.  The event loop runs one coroutine at a time, from  *)
(* one await to the next; the sleeps end in any order.                     *)
(***************************************************************************)
Coros == 1..NumCoros

\* delayed(1, ..), delayed(2, ..), delayed(3, ..): the value of an argument
val_of(i) == i

NotReturned == [returned |-> FALSE, value |-> 0]
Returned(v) == [returned |-> TRUE, value |-> v]

\* main() has not returned a list yet
NoList == [returned |-> FALSE, value |-> <<>>]

CoroFrame(pc, result) == [pc |-> pc, result |-> result]

gather_in_completion_order(children, order) == order

\* gather's result: the children's results, in the order of the arguments
gather_result(children, order) ==
    [i \in 1..Len(children) |-> children[i].result.value]

GatherInit ==
    /\ coro = [i \in Coros |-> CoroFrame("new", NotReturned)]
    /\ completed = <<>>
    /\ gathered = NoList
    /\ gmain = [pc |-> "gather"]
    /\ BarrierUnused
    /\ CounterUnused
    /\ QueueUnused
    /\ SemUnused
    /\ TypesUnused
    /\ CtxUnused
    /\ SingletonUnused
    /\ StackUnused
    /\ IterUnused
    /\ DescUnused
    /\ BusUnused

\* return await asyncio.gather(...): the coroutines become tasks and main
\* waits for them
GatherCall ==
    /\ gmain.pc = "gather"
    /\ coro' = [i \in Coros |-> CoroFrame("ready", NotReturned)]
    /\ gmain' = [gmain EXCEPT !.pc = "await"]
    /\ UNCHANGED <<completed, gathered, outside_gather>>

\* await asyncio.sleep(delay): the coroutine runs up to its sleep
CoroSleep(i) ==
    /\ coro[i].pc = "ready"
    /\ coro' = [coro EXCEPT ![i].pc = "sleeping"]
    /\ UNCHANGED <<completed, gathered, gmain, outside_gather>>

\* the sleep is over: results.append(val); return val
CoroReturn(i) ==
    /\ coro[i].pc = "sleeping"
    /\ completed' = Append(completed, val_of(i))
    /\ coro' = [coro EXCEPT ![i] = CoroFrame("done", Returned(val_of(i)))]
    /\ UNCHANGED <<gathered, gmain, outside_gather>>

\* gather resolves when its last child is done, and main returns its result
GatherReturn ==
    /\ gmain.pc = "await"
    /\ \A i \in Coros : coro[i].pc = "done"
    /\ gathered' = Returned(gather_result(coro, completed))
    /\ gmain' = [gmain EXCEPT !.pc = "assert"]
    /\ UNCHANGED <<coro, completed, outside_gather>>

\* assert asyncio.run(main()) == [1, 2, 3]; assert sorted(results) == [1, 2, 3]
GatherAssert ==
    /\ gmain.pc = "assert"
    /\ gmain' = [gmain EXCEPT !.pc =
                    IF /\ gathered.value = [i \in Coros |-> i]
                       /\ sorted(completed) = [i \in Coros |-> i]
                    THEN "passed" ELSE "AssertionError"]
    /\ UNCHANGED <<coro, completed, gathered, outside_gather>>

GatherNext ==
    \/ GatherCall
    \/ \E i \in Coros : CoroSleep(i)
    \/ \E i \in Coros : CoroReturn(i)
    \/ GatherReturn
    \/ GatherAssert

\* the event loop keeps running what is ready
GatherFairness == WF_vars(GatherNext)

SpecGather == GatherInit /\ [][GatherNext]_vars /\ GatherFairness

(***************************************************************************)
(* test_basic_context_manager, test_async_context_manager: a with          *)
(* statement over a Tracker, or an async with over an AsyncResource; the   *)
(* manager and the body record what they do in events.                     *)
(***************************************************************************)
Managers == {"Tracker", "AsyncResource"}

\* events.append("body") with Tracker, events.append("use") with AsyncResource
body_event(kind) == IF kind = "Tracker" THEN "body" ELSE "use"

with_exit_first(pc) ==
    IF pc = "enter" THEN "exit" ELSE IF pc = "exit" THEN "body" ELSE "done"

\* the with statement: __enter__, then the body, then __exit__
with_then(pc) ==
    IF pc = "enter" THEN "body" ELSE IF pc = "body" THEN "exit" ELSE "done"

CtxInit ==
    /\ events = <<>>
    /\ cm = [pc |-> "done", kinds |-> <<>>]
    /\ BarrierUnused
    /\ CounterUnused
    /\ GatherUnused
    /\ QueueUnused
    /\ SemUnused
    /\ TypesUnused
    /\ SingletonUnused
    /\ StackUnused
    /\ IterUnused
    /\ DescUnused
    /\ BusUnused

\* with Tracker(): / async with AsyncResource(): the manager is created
WithStatement(kind) ==
    /\ cm.pc = "done"
    /\ Len(cm.kinds) < MaxWith
    /\ cm' = [pc |-> "enter", kinds |-> Append(cm.kinds, kind)]
    /\ UNCHANGED <<events, outside_ctx>>

\* __enter__ / __aenter__: events.append("enter")
Enter ==
    /\ cm.pc = "enter"
    /\ events' = Append(events, "enter")
    /\ cm' = [cm EXCEPT !.pc = with_then("enter")]
    /\ UNCHANGED outside_ctx

\* the body: events.append("body") / events.append("use")
Body ==
    /\ cm.pc = "body"
    /\ events' = Append(events, body_event(cm.kinds[Len(cm.kinds)]))
    /\ cm' = [cm EXCEPT !.pc = with_then("body")]
    /\ UNCHANGED outside_ctx

\* __exit__ / __aexit__: events.append("exit")
Exit ==
    /\ cm.pc = "exit"
    /\ events' = Append(events, "exit")
    /\ cm' = [cm EXCEPT !.pc = with_then("exit")]
    /\ UNCHANGED outside_ctx

CtxNext ==
    \/ \E kind \in Managers : WithStatement(kind)
    \/ Enter
    \/ Body
    \/ Exit

SpecCtx == CtxInit /\ [][CtxNext]_vars

(***************************************************************************)
(* test_singleton_metaclass: SingletonMeta.__call__ keeps one instance per *)
(* class in _instances.  Objects are numbered in the order the underlying  *)
(* constructor makes them; 0 is no object.                                 *)
(***************************************************************************)
Callers == 1..NumCallers

\* the callers that run in threads of their own
CallerThreads == {t \in Callers : t <= NumCallerThreads}

\* class Singleton(metaclass=SingletonMeta)
Singleton == "Singleton"

\* _instances: dict[type, object] = {}
NoInstances == <<>>

CallFrame(pc, obj, ret) == [pc |-> pc, obj |-> obj, ret |-> ret]

not_in_never_finds(cls, dict) == TRUE

\* cls not in cls._instances
not_in(cls, dict) == cls \notin DOMAIN dict

\* cls._instances[cls] = obj
setitem(dict, cls, obj) ==
    [c \in DOMAIN dict \cup {cls} |-> IF c = cls THEN obj ELSE dict[c]]

SingletonInit ==
    /\ instances = NoInstances
    /\ created = 0
    /\ sthr = [t \in Callers |-> CallFrame("idle", 0, 0)]
    /\ BarrierUnused
    /\ CounterUnused
    /\ CtxUnused
    /\ GatherUnused
    /\ QueueUnused
    /\ SemUnused
    /\ TypesUnused
    /\ StackUnused
    /\ IterUnused
    /\ DescUnused
    /\ BusUnused

\* a = Singleton(); b = Singleton(): one call after the other
SingletonCall(t) ==
    /\ sthr[t].pc = "idle"
    /\ \A u \in Callers : sthr[u].pc \in {"idle", "done"}
    /\ sthr' = [sthr EXCEPT ![t].pc = "check"]
    /\ UNCHANGED <<instances, created, outside_single>>

\* Singleton() called from a thread of its own, whatever the others do
SingletonCallInThread(t) ==
    /\ sthr[t].pc = "idle"
    /\ sthr' = [sthr EXCEPT ![t].pc = "check"]
    /\ UNCHANGED <<instances, created, outside_single>>

\* if cls not in cls._instances:
SingletonCheck(t) ==
    /\ sthr[t].pc = "check"
    /\ sthr' = [sthr EXCEPT ![t].pc =
                   IF not_in(Singleton, instances) THEN "construct" ELSE "return"]
    /\ UNCHANGED <<instances, created, outside_single>>

\* super().__call__(*args, **kwargs): the underlying constructor
SingletonConstruct(t) ==
    /\ sthr[t].pc = "construct"
    /\ created' = created + 1
    /\ sthr' = [sthr EXCEPT ![t].pc = "store", ![t].obj = created + 1]
    /\ UNCHANGED <<instances, outside_single>>

\* cls._instances[cls] = ...
SingletonStore(t) ==
    /\ sthr[t].pc = "store"
    /\ instances' = setitem(instances, Singleton, sthr[t].obj)
    /\ sthr' = [sthr EXCEPT ![t].pc = "return"]
    /\ UNCHANGED <<created, outside_single>>

\* return cls._instances[cls]
SingletonReturn(t) ==
    /\ sthr[t].pc = "return"
    /\ sthr' = [sthr EXCEPT ![t].pc = "done", ![t].ret = instances[Singleton]]
    /\ UNCHANGED <<instances, created, outside_single>>

SingletonNext ==
    \/ \E t \in Callers : SingletonCall(t)
    \/ \E t \in Callers : SingletonCheck(t)
    \/ \E t \in Callers : SingletonConstruct(t)
    \/ \E t \in Callers : SingletonStore(t)
    \/ \E t \in Callers : SingletonReturn(t)

SpecSingleton == SingletonInit /\ [][SingletonNext]_vars

SingletonThreadsNext ==
    \/ \E t \in CallerThreads : SingletonCallInThread(t)
    \/ \E t \in CallerThreads : SingletonCheck(t)
    \/ \E t \in CallerThreads : SingletonConstruct(t)
    \/ \E t \in CallerThreads : SingletonStore(t)
    \/ \E t \in CallerThreads : SingletonReturn(t)

SpecSingletonThreads == SingletonInit /\ [][SingletonThreadsNext]_vars

(***************************************************************************)
(* test_generic_class: Stack keeps its items in a list; push appends, pop  *)
(* is list.pop(), is_empty compares the length with 0.                     *)
(***************************************************************************)
\* the items pushed: stack.push(1), stack.push(2)
StackItems == {1, 2}

StackOp(op, item, outcome) == [op |-> op, item |-> item, outcome |-> outcome]

\* self._items.append(item)
list_append(list, item) == Append(list, item)

list_pop_first(list) ==
    IF Len(list) = 0
    THEN [raised |-> TRUE, ret |-> "IndexError", list |-> list]
    ELSE [raised |-> FALSE, ret |-> Head(list), list |-> Tail(list)]

\* self._items.pop(): removes and returns the last item of the list, and
\* raises IndexError on an empty list
list_pop(list) ==
    IF Len(list) = 0
    THEN [raised |-> TRUE, ret |-> "IndexError", list |-> list]
    ELSE [raised |-> FALSE, ret |-> list[Len(list)],
          list |-> SubSeq(list, 1, Len(list) - 1)]

\* len(self._items) == 0
is_empty(list) == Len(list) = 0

StackInit ==
    /\ items = <<>>
    /\ sops = <<>>
    /\ BarrierUnused
    /\ CounterUnused
    /\ CtxUnused
    /\ GatherUnused
    /\ QueueUnused
    /\ SemUnused
    /\ SingletonUnused
    /\ TypesUnused
    /\ IterUnused
    /\ DescUnused
    /\ BusUnused

\* stack.push(item)
Push(item) ==
    /\ Len(sops) < MaxStackOps
    /\ items' = list_append(items, item)
    /\ sops' = Append(sops, StackOp("push", item, [raised |-> FALSE, ret |-> "None"]))
    /\ UNCHANGED outside_stack

\* stack.pop()
Pop ==
    /\ Len(sops) < MaxStackOps
    /\ items' = list_pop(items).list
    /\ sops' = Append(sops, StackOp("pop", 0,
                  [raised |-> list_pop(items).raised, ret |-> list_pop(items).ret]))
    /\ UNCHANGED outside_stack

\* stack.is_empty()
IsEmpty ==
    /\ Len(sops) < MaxStackOps
    /\ sops' = Append(sops, StackOp("is_empty", 0,
                  [raised |-> FALSE, ret |-> is_empty(items)]))
    /\ UNCHANGED <<items, outside_stack>>

StackNext ==
    \/ \E item \in StackItems : Push(item)
    \/ Pop
    \/ IsEmpty

SpecStack == StackInit /\ [][StackNext]_vars

(***************************************************************************)
(* test_custom_iterator, test_async_iterator: Countdown(start) counts down *)
(* to 1, AsyncRange(stop) counts up from 0; __next__ / __anext__ either    *)
(* returns a value or raises StopIteration / StopAsyncIteration.           *)
(***************************************************************************)
IterKinds == {"Countdown", "AsyncRange"}

\* the arguments tried, some of them not positive
IterArgs == (0 - 1)..MaxCount

Iterator(kind, arg, cur) == [kind |-> kind, arg |-> arg, current |-> cur]

\* Countdown.__init__: self.current = start
\* AsyncRange.__init__: self.stop = stop; self.current = 0
new_iterator(kind, arg) ==
    IF kind = "Countdown" THEN Iterator(kind, arg, arg) ELSE Iterator(kind, arg, 0)

countdown_done_below_zero(self) == self.current < 0

\* if self.current <= 0: raise StopIteration
countdown_done(self) == self.current <= 0

\* if self.current >= self.stop: raise StopAsyncIteration
async_range_done(self) == self.current >= self.arg

IterInit ==
    /\ \E kind \in IterKinds, arg \in IterArgs : it = new_iterator(kind, arg)
    /\ yielded = <<>>
    /\ stops = 0
    /\ BarrierUnused
    /\ CounterUnused
    /\ CtxUnused
    /\ GatherUnused
    /\ QueueUnused
    /\ SemUnused
    /\ SingletonUnused
    /\ StackUnused
    /\ TypesUnused
    /\ DescUnused
    /\ BusUnused

\* Countdown.__next__
CountdownNext ==
    /\ it.kind = "Countdown"
    /\ IF countdown_done(it)
       THEN /\ stops < MaxStops
            /\ stops' = stops + 1
            /\ UNCHANGED <<it, yielded>>
       ELSE /\ it' = [it EXCEPT !.current = @ - 1]
            /\ yielded' = Append(yielded, (it.current - 1) + 1)
            /\ UNCHANGED stops
    /\ UNCHANGED outside_iter

\* AsyncRange.__anext__
AsyncRangeNext ==
    /\ it.kind = "AsyncRange"
    /\ IF async_range_done(it)
       THEN /\ stops < MaxStops
            /\ stops' = stops + 1
            /\ UNCHANGED <<it, yielded>>
       ELSE /\ it' = [it EXCEPT !.current = @ + 1]
            /\ yielded' = Append(yielded, it.current)
            /\ UNCHANGED stops
    /\ UNCHANGED outside_iter

IterNext == CountdownNext \/ AsyncRangeNext

SpecIter == IterInit /\ [][IterNext]_vars

(***************************************************************************)
(* test_data_descriptor (chapters 4 and 35): Account.balance is a Positive *)
(* descriptor, Order.quantity a Validated one; __set__ validates and then  *)
(* stores into the instance's __dict__, __get__ reads from it.  A number   *)
(* is a record of its class and its value.                                 *)
(***************************************************************************)
Num(t, n) == [type |-> t, num |-> n]

\* the values assigned: 100, 10, -50, -1, and a float, 0 and True besides
DescValues ==
    {Num("int", 100), Num("int", 0), Num("int", 0 - 1), Num("int", 0 - 50),
     Num("float", 10), Num("bool", 1)}

DescClasses == {"Account", "Order"}

Attribute(cls, d) == [cls |-> cls, dict |-> d]

NoAttr == [has |-> FALSE, value |-> Num("NoneType", 0)]
Attr(v) == [has |-> TRUE, value |-> v]

\* Positive: value < 0
\* Validated: not isinstance(value, int) or value < 0
invalid(cls, value) ==
    IF cls = "Account" THEN value.num < 0
    ELSE value.type \notin {"int", "bool"} \/ value.num < 0

descriptor_set_stores_first(cls, d, value) ==
    [raised |-> invalid(cls, value), dict |-> Attr(value)]

\* __set__: raise ValueError if the value is invalid, else
\* obj.__dict__[self.name] = value
descriptor_set(cls, d, value) ==
    IF invalid(cls, value)
    THEN [raised |-> TRUE, dict |-> d]
    ELSE [raised |-> FALSE, dict |-> Attr(value)]

\* __get__: obj.__dict__.get(self.name, 0) for Positive,
\* obj.__dict__.get(self.name) for Validated
descriptor_get(cls, d) ==
    IF d.has THEN d.value
    ELSE IF cls = "Account" THEN Num("int", 0) ELSE Num("NoneType", 0)

DescInit ==
    /\ \E cls \in DescClasses : dobj = Attribute(cls, NoAttr)
    /\ dlog = <<>>
    /\ BarrierUnused
    /\ CounterUnused
    /\ CtxUnused
    /\ GatherUnused
    /\ IterUnused
    /\ QueueUnused
    /\ SemUnused
    /\ SingletonUnused
    /\ StackUnused
    /\ TypesUnused
    /\ BusUnused

\* acc.balance = value / order.quantity = value
Assign(value) ==
    /\ Len(dlog) < MaxAssign
    /\ dobj' = [dobj EXCEPT !.dict = descriptor_set(dobj.cls, dobj.dict, value).dict]
    /\ dlog' = Append(dlog,
                  [value |-> value,
                   raised |-> IF descriptor_set(dobj.cls, dobj.dict, value).raised
                              THEN "ValueError" ELSE ""])
    /\ UNCHANGED outside_desc

DescNext == \E value \in DescValues : Assign(value)

SpecDesc == DescInit /\ [][DescNext]_vars

(***************************************************************************)
(* test_observer_notification: EventBus keeps a list of handlers per       *)
(* event; subscribe appends to the event's list, emit calls the handlers   *)
(* of the event in list order.  The handlers of the test append            *)
(* "email: <data>" and "log: <data>" to notifications.                     *)
(***************************************************************************)
BusEvents == {"user_created", "user_deleted"}

\* lambda d: notifications.append(f"email: {d}") and the same with "log"
BusHandlers == {"email", "log"}

BusData == {"Alice"}

\* f"email: {d}": the text a handler appends
notification(handler, data) == <<handler, ": ", data>>

\* self._handlers = {}
NoHandlers == <<>>

dict_get_all(dict, key) ==
    IF DOMAIN dict = {} THEN <<>>
    ELSE IF "user_created" \in DOMAIN dict /\ "user_deleted" \in DOMAIN dict
         THEN dict["user_created"] \o dict["user_deleted"]
    ELSE dict[CHOOSE k \in DOMAIN dict : TRUE]

\* self._handlers.get(event, [])
dict_get(dict, key) == IF key \in DOMAIN dict THEN dict[key] ELSE <<>>

\* self._handlers.setdefault(event, []).append(handler)
setdefault_append(dict, key, item) ==
    [k \in DOMAIN dict \cup {key} |->
        IF k = key THEN Append(dict_get(dict, key), item) ELSE dict[k]]

BusInit ==
    /\ handlers = NoHandlers
    /\ notifications = <<>>
    /\ bops = <<>>
    /\ BarrierUnused
    /\ CounterUnused
    /\ CtxUnused
    /\ DescUnused
    /\ GatherUnused
    /\ IterUnused
    /\ QueueUnused
    /\ SemUnused
    /\ SingletonUnused
    /\ StackUnused
    /\ TypesUnused

\* bus.subscribe(event, handler)
Subscribe(event, handler) ==
    /\ Len(bops) < MaxBusOps
    /\ handlers' = setdefault_append(handlers, event, handler)
    /\ bops' = Append(bops, [op |-> "subscribe", event |-> event, arg |-> handler])
    /\ UNCHANGED <<notifications, outside_bus>>

\* bus.emit(event, data): for handler in ...: handler(data)
Emit(event, data) ==
    /\ Len(bops) < MaxBusOps
    /\ notifications' = notifications \o
          [k \in 1..Len(dict_get(handlers, event)) |->
              notification(dict_get(handlers, event)[k], data)]
    /\ bops' = Append(bops, [op |-> "emit", event |-> event, arg |-> data])
    /\ UNCHANGED <<handlers, outside_bus>>

BusNext ==
    \/ \E event \in BusEvents, handler \in BusHandlers : Subscribe(event, handler)
    \/ \E event \in BusEvents, data \in BusData : Emit(event, data)

SpecBus == BusInit /\ [][BusNext]_vars

(***************************************************************************)
(* Properties of Result and ensure_type.                                   *)
(***************************************************************************)
\* the Result a call of last was made on, as constructed
LastGiven == given[last.self]

OnResult(op) == last.op = op /\ last.self \in Allocated

\* C1: for every Result, whatever its stored value, is_ok is true exactly
\* when the stored error is None; a Result constructed with error=None has
\* is_ok true and is_err false, for every value (None included).
C1_IsOkIffErrorIsNone ==
    /\ OnResult("is_ok") =>
          /\ last.out.outcome = "return"
          /\ last.out.ret \in {True, False}
          /\ (last.out.ret = True) <=> (heap[last.self].error = None)
    /\ OnResult("is_ok") /\ LastGiven.error = None => last.out = Return(True)
    /\ OnResult("is_err") /\ LastGiven.error = None => last.out = Return(False)

C1_Witness ==
    /\ OnResult("is_ok")
    /\ LastGiven = [value |-> None, error |-> None]
    /\ last.out = Return(True)

\* C2: for every error string e, the empty string included, a Result
\* constructed with value=None and error=e has is_err true and is_ok false.
C2_AnyErrorStringIsAnError ==
    \A op \in {"is_err", "is_ok"} :
        /\ OnResult(op)
        /\ LastGiven.value = None
        /\ LastGiven.error.type = T_str
        => last.out = Return(PyBool(op = "is_err"))

C2_Witness ==
    /\ OnResult("is_err")
    /\ LastGiven = [value |-> None, error |-> PyStr("")]
    /\ last.out = Return(True)

\* C3: for a Result constructed with error=None, unwrap() returns exactly
\* the stored value, unchanged and without failing, for every stored value.
C3_UnwrapReturnsValue ==
    OnResult("unwrap") /\ LastGiven.error = None
    => last.out = Return(LastGiven.value)

C3_Witness ==
    /\ OnResult("unwrap")
    /\ LastGiven = [value |-> PyInt("42"), error |-> None]
    /\ last.out = Return(PyInt("42"))

\* C4: for a Result constructed with a non-None error e, unwrap() never
\* returns: it raises ValueError with the message "Called unwrap on error: "
\* followed by e, so the message contains e verbatim.
C4_UnwrapRaisesWithErrorText ==
    OnResult("unwrap") /\ LastGiven.error # None
    => /\ last.out.outcome = "raise"
       /\ last.out.exc = "ValueError"
       /\ last.out.msg = "Called unwrap on error: " \o LastGiven.error.lit
       /\ Contains(last.out.msg, LastGiven.error.lit)

C4_Witness ==
    /\ OnResult("unwrap")
    /\ LastGiven = [value |-> None, error |-> PyStr("not found")]
    /\ last.out.outcome = "raise"
    /\ Contains(last.out.msg, "not found")

\* C5: in every state of every Result (value set or unset, error set or
\* unset) is_err is the negation of is_ok: exactly one of the two is true.
C5_IsErrNegatesIsOk ==
    \A a \in Allocated :
        /\ {is_ok(heap[a]), is_err(heap[a])} = {True, False}
        /\ bool(is_err(heap[a])) = ~bool(is_ok(heap[a]))

C5_Witness ==
    /\ \E a \in Allocated : heap[a].value # None /\ heap[a].error = PyStr("")
    /\ \E a \in Allocated : heap[a].value = None /\ heap[a].error = None
    /\ last.op = "is_err"

\* C6 as stated: ensure_type raises TypeError whenever the runtime type of
\* value is not expected_type, for every value and every expected type.
C6_FailsUnlessExactType ==
    last.op = "ensure_type" /\ type(last.value) # last.expected_type
    => last.out.outcome = "raise" /\ last.out.exc = "TypeError"

\* C6 amended: ensure_type raises TypeError whenever value is not an instance
\* of expected_type, that is whenever the runtime type of value is neither
\* expected_type nor a subclass of it.
C6_FailsUnlessInstance ==
    last.op = "ensure_type" /\ last.expected_type \notin mro(type(last.value))
    => last.out.outcome = "raise" /\ last.out.exc = "TypeError"

C6_Witness ==
    /\ last.op = "ensure_type"
    /\ last.value = PyStr("5")
    /\ last.expected_type = T_int
    /\ last.out.outcome = "raise"
    /\ last.out.exc = "TypeError"

\* C7: when value is of the expected type, ensure_type is a no-op: it raises
\* nothing and returns None, for every name.
C7_NoOpOnMatch ==
    last.op = "ensure_type" /\ last.expected_type \in mro(type(last.value))
    => last.out = Return(None)

C7_Witness ==
    /\ last.op = "ensure_type"
    /\ last.value = Obj(T_list, "[1, 2, 3]")
    /\ last.expected_type = T_list
    /\ last.nameArg = [given |-> TRUE, name |-> "items"]
    /\ last.out = Return(None)

\* C8: whenever ensure_type fails, its message is exactly
\* "<name> must be <expected type name>, got <actual type name>", with the
\* name the caller supplied.
C8_MessageFormat ==
    last.op = "ensure_type" /\ last.out.outcome = "raise" /\ last.nameArg.given
    => /\ last.out.exc = "TypeError"
       /\ last.out.msg = last.nameArg.name \o " must be "
                            \o type_name(last.expected_type) \o ", got "
                            \o type_name(type(last.value))
       /\ Contains(last.out.msg, last.nameArg.name)
       /\ (/\ last.value = Obj(T_tuple, "(1, 2, 3)")
           /\ last.expected_type = T_list
           /\ last.nameArg.name = "items")
          => last.out.msg = "items must be list, got tuple"
       /\ (/\ last.value = None
           /\ last.expected_type = T_int
           /\ last.nameArg.name = "count")
          => last.out.msg = "count must be int, got NoneType"

C8_Witness ==
    /\ last.op = "ensure_type"
    /\ last.value = Obj(T_tuple, "(1, 2, 3)")
    /\ last.expected_type = T_list
    /\ last.nameArg = [given |-> TRUE, name |-> "items"]
    /\ last.out = Raise("TypeError", "items must be list, got tuple")

\* C9: when the caller omits name, a failing ensure_type names the value by
\* the literal "value": the message is "value must be <expected>, got <actual>".
C9_DefaultNameIsValue ==
    last.op = "ensure_type" /\ last.out.outcome = "raise" /\ ~last.nameArg.given
    => last.out.msg = "value must be " \o type_name(last.expected_type)
                         \o ", got " \o type_name(type(last.value))

C9_Witness ==
    /\ last.op = "ensure_type"
    /\ last.nameArg = Omitted
    /\ last.value = PyStr("5")
    /\ last.expected_type = T_int
    /\ last.out = Raise("TypeError", "value must be int, got str")

\* C10: a Result is immutable after construction: in every state after its
\* constructor returned, its value and error are the ones given at
\* construction.
C10_ImmutableAfterConstruction ==
    \A a \in Addrs :
        /\ a \in Allocated => heap[a] = given[a]
        /\ a \notin Allocated => given[a] = NoCtor

C10_Witness ==
    /\ {1, 2} \subseteq Allocated
    /\ heap[1] = [value |-> PyInt("42"), error |-> None]
    /\ heap[2] = [value |-> None, error |-> PyStr("not found")]
    /\ OnResult("unwrap")
    /\ last.self = 1

\* C11: constructing a Result performs no validation and never fails: for
\* every pair (value, error) the new Result holds exactly the two inputs as
\* given, and no other Result is changed.
C11_ConstructStoresInputs ==
    /\ Cardinality(Allocated) < MaxResults =>
          \A v \in ResultValues, e \in Errors : ENABLED Construct(v, e)
    /\ last.op = "Result" =>
          /\ last.out = Return(None)
          /\ heap[last.self].value = last.value
          /\ heap[last.self] = given[last.self]
          /\ \A a \in Allocated \ {last.self} : heap[a] = given[a]
          /\ \A a \in Addrs \ Allocated : heap[a] = UNALLOCATED

C11_Witness ==
    /\ last.op = "Result"
    /\ last.self = 2
    /\ heap[1] = [value |-> None, error |-> None]
    /\ heap[2] = [value |-> PyInt("42"), error |-> PyStr("not found")]

\* C15: a Result constructed with both a non-None value and a non-None error
\* is a failure: is_err is true, is_ok is false, and unwrap raises carrying
\* the error text; unwrap never returns the stored value.
C15_BothSetIsFailure ==
    /\ last.self \in Allocated
    /\ LastGiven.value # None
    /\ LastGiven.error # None
    => /\ last.op = "is_err" => last.out = Return(True)
       /\ last.op = "is_ok" => last.out = Return(False)
       /\ last.op = "unwrap" =>
            /\ last.out.outcome = "raise"
            /\ last.out.ret # LastGiven.value
            /\ Contains(last.out.msg, LastGiven.error.lit)

C15_Witness ==
    /\ OnResult("unwrap")
    /\ LastGiven = [value |-> PyInt("42"), error |-> PyStr("not found")]
    /\ last.out = Raise("ValueError", "Called unwrap on error: not found")

\* C16: a Result constructed with neither value nor error (Result(), or
\* value=None and error=None) is a success: is_ok is true, is_err is false,
\* and unwrap returns None without failing.
C16_NeitherSetIsSuccess ==
    /\ last.op = "Result()" =>
          /\ last.out = Return(None)
          /\ heap[last.self] = [value |-> None, error |-> None]
          /\ is_ok(heap[last.self]) = True
          /\ is_err(heap[last.self]) = False
          /\ unwrap(heap[last.self]) = Return(None)
    /\ last.self \in Allocated /\ LastGiven = [value |-> None, error |-> None]
       => /\ last.op = "is_ok" => last.out = Return(True)
          /\ last.op = "is_err" => last.out = Return(False)
          /\ last.op = "unwrap" => last.out = Return(None)

C16_Witness ==
    /\ OnResult("unwrap")
    /\ LastGiven = [value |-> None, error |-> None]
    /\ last.out = Return(None)
    /\ \A a \in Allocated : heap[a] = [value |-> None, error |-> None]

\* the builtin classes that are subclasses of a class, the class included
SubclassesOf(cls) ==
    CASE cls = T_object -> Types
      [] cls = T_int    -> {T_int, T_bool}
      [] OTHER          -> {cls}

\* C17: ensure_type decides by the instance-of check, not by type equality:
\* it succeeds exactly when value is an instance of expected_type or of a
\* subclass of it (ensure_type(True, int) succeeds) and fails otherwise;
\* value is not coerced (ensure_type("5", int) fails).
C17_InstanceOfDecides ==
    last.op = "ensure_type" =>
        /\ IF type(last.value) \in SubclassesOf(last.expected_type)
           THEN last.out = Return(None)
           ELSE last.out.outcome = "raise" /\ last.out.exc = "TypeError"
        /\ last.value = True /\ last.expected_type = T_int
           => last.out = Return(None)
        /\ last.value = PyStr("5") /\ last.expected_type = T_int
           => last.out.outcome = "raise"

C17_Witness ==
    /\ last.op = "ensure_type"
    /\ last.value = True
    /\ last.expected_type = T_int
    /\ last.out = Return(None)

\* the positions of the log that hold a call of op
CallsOf(op) == { i \in DOMAIN log : log[i].op = op }

\* C13: a failure of unwrap is never recovered or retried: on a Result whose
\* error is not None every call of unwrap, however often it is repeated and
\* in whatever order with is_ok and is_err, raises again with the same error
\* text and never returns a value.
C13_UnwrapFailsEveryTime ==
    \A i \in CallsOf("unwrap") :
        given[log[i].self].error # None =>
            log[i].out = Raise("ValueError",
                               "Called unwrap on error: "
                                  \o given[log[i].self].error.lit)

C13_Witness ==
    /\ Len(log) = 3
    /\ given[1].error = PyStr("not found")
    /\ <<log[1].op, log[2].op, log[3].op>> = <<"unwrap", "is_ok", "unwrap">>
    /\ log[1].out.outcome = "raise"
    /\ log[3].out = log[1].out

\* C14: is_ok, is_err and unwrap are read-only: each leaves the value and
\* the error of the Result unchanged, whether unwrap returns or raises, so
\* every call of an operation answers as its first call did.
C14_ReadOnlyOperations ==
    /\ \A a \in Allocated : heap[a] = given[a]
    /\ \A i, j \in DOMAIN log :
          log[i].op = log[j].op /\ log[i].self = log[j].self
          => log[i].out = log[j].out

C14_Witness ==
    /\ Len(log) = 3
    /\ given[1] = [value |-> PyInt("42"), error |-> None]
    /\ <<log[1].op, log[2].op, log[3].op>> = <<"unwrap", "is_err", "unwrap">>
    /\ log[3].out = Return(PyInt("42"))
    /\ heap[1] = given[1]

\* what a call yields when it runs alone on the same inputs
AloneOutcome(c) ==
    CASE c.op = "is_ok"       -> Return(is_ok(heap[c.self]))
      [] c.op = "is_err"      -> Return(is_err(heap[c.self]))
      [] c.op = "unwrap"      -> unwrap(heap[c.self])
      [] c.op = "ensure_type" ->
            ensure_type(c.value, c.expected_type, bind_name(c.nameArg))

\* C12: any number of threads may call is_ok, is_err, unwrap and ensure_type
\* concurrently without coordination: under every interleaving each call
\* yields what it yields when run alone on the same inputs, and no call
\* blocks or waits on another.
C12_ConcurrentCallsAsAlone ==
    \A t \in Threads :
        /\ thr[t].pc = "done" => thr[t].call.out = AloneOutcome(thr[t].call)
        /\ thr[t].pc = "act" => ENABLED ThreadAct(t)
        /\ CanCall(t) =>
             /\ \A a \in Allocated : ENABLED ThreadUnwrapTest(t, a)
             /\ \A a \in Allocated : ENABLED ThreadIsOk(t, a)
             /\ \A a \in Allocated : ENABLED ThreadIsErr(t, a)
             /\ \A x \in ThreadEnsureArgs :
                   ENABLED ThreadEnsureTest(t, x[1], x[2], x[3])

C12_Witness ==
    /\ given[1].error = PyStr("not found")
    /\ thr[1].pc = "done"
    /\ thr[1].call.op = "unwrap"
    /\ thr[1].call.out = Raise("ValueError", "Called unwrap on error: not found")
    /\ thr[2].pc = "act"
    /\ thr[2].call.op = "ensure_type"
    /\ thr[2].call.value = True

\* C18 as stated: unwrap never returns normally from a Result whose error is
\* not None at the moment of the return, even when another thread assigns
\* the error attribute concurrently with the call.
C18_NoReturnWhileErrorSet ==
    [][ \A t \in Threads :
          ThreadUnwrapAct(t) /\ thr'[t].call.out.outcome = "return"
          => heap'[thr[t].call.self].error = None ]_vars

\* C18 amended: unwrap returns normally only if the error of the Result was
\* None when unwrap tested is_err; the test and the return are two steps, so
\* an assignment of error between them does not stop the return.
C18_ReturnOnlyIfNoErrorAtTest ==
    \A t \in Threads :
        /\ thr[t].pc = "done"
        /\ thr[t].call.op = "unwrap"
        /\ thr[t].call.out.outcome = "return"
        => thr[t].checked = None

C18_Witness ==
    \E t \in Threads :
        /\ thr[t].pc = "done"
        /\ thr[t].call.op = "unwrap"
        /\ thr[t].call.out = Return(PyInt("42"))
        /\ thr[t].checked = None
        /\ heap[thr[t].call.self].error = PyStr("not found")

\* the increments the threads have completed (stored) so far
RECURSIVE StoredUpTo(_)
StoredUpTo(t) ==
    IF t = 0 THEN 0
    ELSE StoredUpTo(t - 1) + inc[t].i + (IF inc[t].pc = "release" THEN 1 ELSE 0)

CounterDone == \A t \in IncThreads : inc[t].pc = "end"

\* C19: lock-protected counter: when N threads each perform K increments of
\* a shared counter, each read-modify-write inside the same lock, then under
\* every interleaving no update is lost, all threads terminate, and the
\* final counter equals N*K.
C19_LockedCounter ==
    /\ [](counter = StoredUpTo(NumIncThreads))
    /\ [](CounterDone => counter = NumIncThreads * Increments)
    /\ [](cmain.pc # "AssertionError")
    /\ <>(CounterDone /\ cmain.pc = "passed")

C19_Witness ==
    /\ cmain.pc = "passed"
    /\ CounterDone
    /\ counter = NumIncThreads * Increments
    /\ counter >= 4

SemDone == \A t \in SemThreads : wrk[t].pc = "end"

\* the workers that are inside "with sem"
WorkersInside == {t \in SemThreads : wrk[t].pc \in InsideSem}

\* C20: with the semaphore initialised to 2 and every worker working inside
\* it, at most 2 workers are inside the guarded section in any reachable
\* state, the recorded max_concurrent stays <= 2 (the assert never fails),
\* current is back at 0 when all workers have ended, and all workers finish.
C20_SemaphoreBound ==
    /\ [](Cardinality(WorkersInside) <= SemPermits)
    /\ [](max_concurrent <= SemPermits)
    /\ [](SemDone => current = 0)
    /\ [](smain.pc # "AssertionError")
    /\ <>(SemDone /\ smain.pc = "passed")

C20_Witness ==
    /\ smain.pc = "passed"
    /\ SemDone
    /\ max_concurrent = SemPermits
    /\ current = 0
    /\ sem = SemPermits

\* the first n entries of a sequence
Prefix(seq, n) == [k \in 1..n |-> seq[k]]

QueueDone == prod.pc = "end" /\ cons.pc = "end"

\* C21: under every interleaving of the producer and the consumer, results
\* is always the items put so far that were taken, in the order they were
\* put (nothing lost, duplicated or out of order, never the sentinel and
\* nothing after it); when the consumer has ended results is exactly the
\* produced items; both threads end and the test's assert passes.
C21_ProducerConsumer ==
    /\ [](/\ Len(results) <= NumItems
          /\ results = Prefix(Expected, Len(results)))
    /\ [](cons.pc = "end" => results = Expected /\ q = <<>>)
    /\ [](qmain.pc # "AssertionError")
    /\ <>(QueueDone /\ qmain.pc = "passed")

C21_Witness ==
    /\ QueueDone
    /\ qmain.pc = "passed"
    /\ results = Expected
    /\ Len(results) >= 3

\* the workers that have called barrier.wait()
CalledWait == {t \in BarrierThreads : bwrk[t] \notin {"new", "wait"}}

BarrierDone == \A t \in BarrierThreads : bwrk[t] = "end"

\* how often a value occurs in a sequence
Occurrences(seq, x) == Cardinality({k \in 1..Len(seq) : seq[k] = x})

\* C22: no worker appends its id to arrivals before all three workers have
\* called barrier.wait(); once all three have arrived every worker passes
\* the barrier and ends, and arrivals finally holds each of the 3 worker
\* ids exactly once.
C22_BarrierOrdering ==
    /\ [](Len(arrivals) > 0 => CalledWait = BarrierThreads)
    /\ [](\A t \in BarrierThreads :
            bwrk[t] \in {"lock", "append", "unlock", "end"}
                => CalledWait = BarrierThreads)
    /\ [](\A t \in BarrierThreads : Occurrences(arrivals, worker_id(t)) <= 1)
    /\ [](bmain.pc # "AssertionError")
    /\ (CalledWait = BarrierThreads) ~>
         (/\ BarrierDone
          /\ bmain.pc = "passed"
          /\ \A t \in BarrierThreads : Occurrences(arrivals, worker_id(t)) = 1
          /\ Len(arrivals) = 3)

C22_Witness ==
    /\ BarrierDone
    /\ bmain.pc = "passed"
    /\ arrivals = <<2, 0, 1>>

\* C23: whatever the order in which the gathered coroutines finish, gather
\* returns only after every one of them has run to completion, and the list
\* it returns holds their results in argument order ([1, 2, 3]); gather
\* does return and the assert passes.
C23_GatherArgumentOrder ==
    /\ [](gathered.returned =>
            /\ \A i \in Coros : coro[i].pc = "done" /\ coro[i].result.returned
            /\ gathered.value = [i \in Coros |-> val_of(i)])
    /\ [](gmain.pc # "AssertionError")
    /\ <>(gathered.returned /\ gmain.pc = "passed")

\* the coroutines finished in the reverse of the argument order
C23_Witness ==
    /\ gmain.pc = "passed"
    /\ gathered.returned
    /\ gathered.value = [i \in Coros |-> val_of(i)]
    /\ completed = [k \in Coros |-> val_of(NumCoros + 1 - k)]

\* what the with statements run so far record when each runs enter, body,
\* exit: three events per statement
EventAt(k) ==
    LET w == ((k - 1) \div 3) + 1
        r == (k - 1) % 3
    IN  IF r = 0 THEN "enter"
        ELSE IF r = 1 THEN body_event(cm.kinds[w]) ELSE "exit"

\* how many events the statement being run has recorded
RecordedBy(pc) ==
    IF pc = "enter" THEN 0 ELSE IF pc = "body" THEN 1
    ELSE IF pc = "exit" THEN 2 ELSE 3

\* C24: for Tracker and AsyncResource, the events of every with statement
\* are enter, then the body's event, then exit: enter and exit occur once
\* each, the body never runs before enter and exit never before the body.
C24_EnterBodyExit ==
    /\ Len(cm.kinds) = 0 => events = <<>>
    /\ Len(cm.kinds) > 0 =>
          Len(events) = 3 * (Len(cm.kinds) - 1) + RecordedBy(cm.pc)
    /\ \A k \in 1..Len(events) : events[k] = EventAt(k)
    /\ cm.pc = "done" =>
          /\ Occurrences(events, "enter") = Len(cm.kinds)
          /\ Occurrences(events, "exit") = Len(cm.kinds)

C24_Witness ==
    /\ cm.pc = "done"
    /\ cm.kinds = <<"Tracker", "AsyncResource">>
    /\ events = <<"enter", "body", "exit", "enter", "use", "exit">>

\* the callers whose Singleton() has returned
Got == {t \in Callers : sthr[t].pc = "done"}

\* every call that has returned returned the same object, made by the one
\* run of the underlying constructor
OneInstance ==
    /\ created <= 1
    /\ \A t, u \in Got : sthr[t].ret = sthr[u].ret
    /\ \A t \in Got : sthr[t].ret = 1

\* C25: for any sequence of calls Singleton(), every call returns the
\* identical object, the underlying constructor runs only on the first
\* call, and _instances holds exactly one entry, for the class, afterwards.
C25_OneInstance ==
    /\ OneInstance
    /\ Got # {} =>
          /\ created = 1
          /\ DOMAIN instances = {Singleton}
          /\ \A t \in Got : sthr[t].ret = instances[Singleton]
    /\ \A t \in Callers : sthr[t].pc \in {"construct", "store"} => Got = {}

C25_Witness ==
    /\ Got = Callers
    /\ created = 1
    /\ \A t \in Callers : sthr[t].ret = 1 /\ sthr[t].obj = (IF t = 2 THEN 1 ELSE 0)

\* C26: when Singleton() is called concurrently from several threads, at
\* most one instance is ever created and all callers receive the same
\* object.
C26_OneInstanceConcurrently ==
    /\ created <= 1
    /\ \A t, u \in Got : sthr[t].ret = sthr[u].ret

\* the greatest number of a non-empty set of numbers
MaxOf(S) == CHOOSE x \in S : \A y \in S : y <= x

\* the pushes among the first n calls whose item no later pop among them
\* has taken: a pop that returns takes the most recent of them
RECURSIVE Unpopped(_)
Unpopped(n) ==
    IF n = 0 THEN {}
    ELSE IF sops[n].op = "push" THEN Unpopped(n - 1) \cup {n}
    ELSE IF sops[n].op = "pop" /\ ~sops[n].outcome.raised
         THEN Unpopped(n - 1) \ {MaxOf(Unpopped(n - 1))}
    ELSE Unpopped(n - 1)

Pushes(n) == Cardinality({k \in 1..n : sops[k].op = "push"})
Pops(n) ==
    Cardinality({k \in 1..n : sops[k].op = "pop" /\ ~sops[k].outcome.raised})

\* C27: in any sequence of push and pop calls, a pop on a non-empty stack
\* returns and removes the most recently pushed item not yet popped, and
\* is_empty() is true exactly when as many pops as pushes have been made.
C27_StackIsLifo ==
    /\ \A n \in 1..Len(sops) :
          /\ sops[n].op = "pop" /\ Pushes(n - 1) > Pops(n - 1) =>
                /\ ~sops[n].outcome.raised
                /\ sops[n].outcome.ret = sops[MaxOf(Unpopped(n - 1))].item
          /\ sops[n].op = "is_empty" =>
                (sops[n].outcome.ret <=> Pushes(n - 1) = Pops(n - 1))
    /\ Len(items) = Cardinality(Unpopped(Len(sops)))
    /\ \A k \in Unpopped(Len(sops)) :
          items[Cardinality({j \in Unpopped(Len(sops)) : j <= k})] = sops[k].item
    /\ is_empty(items) <=> Pushes(Len(sops)) = Pops(Len(sops))

\* push(1), push(2), pop() == 2, pop() == 1
C27_Witness ==
    /\ Len(sops) = 4
    /\ sops[1] = StackOp("push", 1, [raised |-> FALSE, ret |-> "None"])
    /\ sops[2] = StackOp("push", 2, [raised |-> FALSE, ret |-> "None"])
    /\ sops[3] = StackOp("pop", 0, [raised |-> FALSE, ret |-> 2])
    /\ sops[4] = StackOp("pop", 0, [raised |-> FALSE, ret |-> 1])
    /\ is_empty(items)

\* what the iterator is to yield in all: n, n-1, ..., 1 for Countdown(n),
\* 0, 1, ..., stop-1 for AsyncRange(stop), nothing for an argument <= 0
ToYield ==
    IF it.arg <= 0 THEN <<>>
    ELSE IF it.kind = "Countdown"
         THEN [k \in 1..it.arg |-> it.arg + 1 - k]
         ELSE [k \in 1..it.arg |-> k - 1]

\* C28: Countdown(n) yields n, n-1, ..., 1 and AsyncRange(stop) yields 0, 1,
\* ..., stop-1, then the next call signals exhaustion (at once for an
\* argument <= 0); once exhausted, every further next call signals
\* exhaustion again, yields nothing and leaves the counter unchanged.
C28_IteratorsFiniteAndExact ==
    /\ [](/\ Len(yielded) <= Len(ToYield)
          /\ yielded = Prefix(ToYield, Len(yielded)))
    /\ [](stops > 0 => yielded = ToYield)
    /\ [][Len(yielded) = Len(ToYield) \/ stops > 0 =>
            /\ stops' = stops + 1
            /\ yielded' = yielded
            /\ it' = it]_vars

C28_Witness ==
    /\ it.kind = "Countdown"
    /\ it.arg = 3
    /\ yielded = <<3, 2, 1>>
    /\ stops = 2
    /\ it.current = 0

\* AsyncRange(4) yielded 0, 1, 2, 3 and then signalled exhaustion twice
C28_WitnessAsync ==
    /\ it.kind = "AsyncRange"
    /\ it.arg = 4
    /\ yielded = <<0, 1, 2, 3>>
    /\ stops = 2

\* C29: after any sequence of assignments to Account.balance or
\* Order.quantity the stored value, and so the value read, is never
\* negative; an assignment of a negative value raises ValueError and leaves
\* the previously stored value unchanged.
C29_ValidatedAttribute ==
    /\ [](/\ dobj.dict.has => dobj.dict.value.num >= 0
          /\ descriptor_get(dobj.cls, dobj.dict).type # "NoneType" =>
                descriptor_get(dobj.cls, dobj.dict).num >= 0
          /\ \A n \in 1..Len(dlog) :
                dlog[n].value.num < 0 => dlog[n].raised = "ValueError")
    /\ [][Len(dlog') = Len(dlog) + 1 /\ dlog'[Len(dlog')].value.num < 0 =>
            /\ dlog'[Len(dlog')].raised = "ValueError"
            /\ dobj' = dobj]_vars

\* acc.balance = 100, then acc.balance = -50 raised and 100 is still stored
C29_Witness ==
    /\ dobj.cls = "Account"
    /\ Len(dlog) = 2
    /\ dlog[1] = [value |-> Num("int", 100), raised |-> ""]
    /\ dlog[2] = [value |-> Num("int", 0 - 50), raised |-> "ValueError"]
    /\ dobj.dict = Attr(Num("int", 100))

\* the handlers subscribed to an event by the first n calls, one entry per
\* subscription, in subscription order
RECURSIVE Subscribed(_, _)
Subscribed(event, n) ==
    IF n = 0 THEN <<>>
    ELSE IF bops[n].op = "subscribe" /\ bops[n].event = event
         THEN Append(Subscribed(event, n - 1), bops[n].arg)
    ELSE Subscribed(event, n - 1)

\* what the emits among the first n calls make the handlers append
RECURSIVE Notified(_)
Notified(n) ==
    IF n = 0 THEN <<>>
    ELSE IF bops[n].op = "emit"
         THEN Notified(n - 1) \o
                [k \in 1..Len(Subscribed(bops[n].event, n - 1)) |->
                    notification(Subscribed(bops[n].event, n - 1)[k], bops[n].arg)]
    ELSE Notified(n - 1)

\* C30: emit(event, data) calls every handler subscribed to that event once
\* per subscription, in subscription order, with the emitted data, and no
\* handler of another event; emitting an event nobody subscribed to does
\* nothing and does not fail.
C30_EmitNotifiesSubscribers ==
    /\ [](notifications = Notified(Len(bops)))
    /\ [][\A event \in BusEvents :
            Len(bops) < MaxBusOps /\ Subscribed(event, Len(bops)) = <<>> =>
               \A data \in BusData :
                  /\ ENABLED Emit(event, data)
                  /\ Emit(event, data) => notifications' = notifications]_vars

\* two subscriptions to user_created, then emit("user_created", "Alice")
C30_Witness ==
    /\ Len(bops) = 3
    /\ bops[1] = [op |-> "subscribe", event |-> "user_created", arg |-> "email"]
    /\ bops[2] = [op |-> "subscribe", event |-> "user_created", arg |-> "log"]
    /\ bops[3] = [op |-> "emit", event |-> "user_created", arg |-> "Alice"]
    /\ notifications = <<notification("email", "Alice"), notification("log", "Alice")>>

====
